---- MODULE Spec2Model ----
(***************************************************************************)
(* Tree decompositions by vertex elimination (graph.py, decomposer.py),    *)
(* the structural transforms of a tree decomposition (td.py) and the       *)
(* dynamic program over a tree decomposition (dp.py, formula.py).          *)
(*                                                                         *)
(* TD objects live in a heap of three sequences indexed by object id:      *)
(* node (the bag), parent (0 is None) and children (a list of ids).        *)
(***************************************************************************)
EXTENDS Integers, Sequences, FiniteSets, TLC

VARIABLES
    pc,               \* position of the driver
    g,                \* the caller's Graph (the Decomposer works on a deep copy)
    vertices,         \* Decomposer.graph.vertices
    neighbors,        \* Decomposer.graph.neighbors
    num_vertices,     \* Decomposer.graph.num_vertices
    method,           \* Decomposer.method
    max_width,        \* Decomposer.max_width: <<>> is None, <<k>> the bound k
    normalize,        \* Decomposer.normalize: "weak" is TD.weakly_normalize
    minimize_roots,   \* Decomposer.minimize_roots
    bags_containing,  \* Decomposer.bags_containing
    td_roots,         \* Decomposer.td_roots
    node,             \* TD.node of every TD object
    parent,           \* TD.parent of every TD object
    children,         \* TD.children of every TD object
    root,             \* the TD object the driver holds
    formula,          \* the Formula: its clauses and its hard_weight
    args,             \* the Assignments and the variable list a call is given
    tables,           \* Table.rows of every Table computed so far, by TD object
    answer,           \* what the last query on the tables returned
    time_limit,       \* the time_limit given to Decomposer: <<>> is None
    expired,          \* the time limit given has elapsed
    iterator,         \* the RowIterator the driver holds
    yielded           \* the rows that iterator has yielded, in order

graphVars == <<g, vertices, neighbors, num_vertices, method, max_width,
               normalize, minimize_roots, bags_containing, td_roots>>
heapVars == <<node, parent, children>>
iterVars == <<iterator, yielded>>
dpVars == <<formula, args, tables, answer, iterVars>>
timeVars == <<time_limit, expired>>
vars == <<pc, graphVars, heapVars, root, dpVars, timeVars>>

\* ------------------------------------------------------------------------
\* Bounds
\* ------------------------------------------------------------------------
MaxTreeNodes == 3     \* TD objects in an input tree
MaxTreeVar == 2       \* input bags are subsets of 1..MaxTreeVar
MaxVertices == 3      \* input graphs are Graph(n) for n up to MaxVertices
MaxWidth == 2         \* the width bounds given are 0..MaxWidth
MaxVar == 2           \* the variables of an input formula are among 1..MaxVar
MaxWeight == 2        \* the weights of its clauses are among 1..MaxWeight
MaxClauses == 2       \* an input formula has up to MaxClauses clauses
MaxTableNodes == 3    \* TD objects in a tree handed to Table
MaxTimeLimit == 2     \* the time limits given are 1..MaxTimeLimit
MaxAssignVar == 2     \* variables of the assignments combined: 1..MaxAssignVar
MaxLiterals == 6      \* to_literals is given at most MaxLiterals variables

\* ------------------------------------------------------------------------
\* Helpers
\* ------------------------------------------------------------------------
None == 0

\* No formula is involved.
NoFormula == [clauses |-> <<>>]

\* No query has been answered.
NoAnswer == [op |-> "none"]

\* The driver holds no RowIterator.
NoIterator == [table |-> None]

\* No call on Assignment is prepared.
NoArgs == [assignments |-> <<>>, variables |-> <<>>]

Range(s) == {s[i] : i \in DOMAIN s}

RECURSIVE UnionOver(_, _)
UnionOver(h, ids) ==
    IF ids = <<>> THEN {} ELSE h.node[Head(ids)] \cup UnionOver(h, Tail(ids))

Heap == [node |-> node, parent |-> parent, children |-> children]

\* TD.__init__
NewTD(h, bag) ==
    [node |-> Append(h.node, bag),
     parent |-> Append(h.parent, None),
     children |-> Append(h.children, <<>>)]

\* TD.add_child
add_child(h, self, child) ==
    [h EXCEPT !.parent[child] = self,
              !.children[self] = Append(@, child)]

RECURSIVE add_children(_, _, _)
add_children(h, self, cs) ==
    IF cs = <<>> THEN h
    ELSE add_children(add_child(h, self, Head(cs)), self, Tail(cs))

\* TD.width
RECURSIVE width(_, _)
width(h, self) ==
    LET widths == {width(h, h.children[self][i]) : i \in DOMAIN h.children[self]}
                  \cup {Cardinality(h.node[self]) - 1}
    IN CHOOSE w \in widths : \A x \in widths : x <= w

\* TD.remove_subset_children.  The for loop runs over self.children while
\* add_child appends the adopted grandchildren to that same list, so the loop
\* visits them too; index i walks the growing list.
adopt_none(h, self, child) == [h EXCEPT !.children[child] = <<>>]

\* "Remove child and adopt its children": the grandchildren are appended to
\* self.children and the removed child's list is cleared.
adopt_grandchildren(h, self, child) ==
    [add_children(h, self, h.children[child]) EXCEPT !.children[child] = <<>>]

RECURSIVE remove_subset_children(_, _), rsc_loop(_, _, _, _)
rsc_loop(h, self, i, new_children) ==
    IF i > Len(h.children[self])
    THEN [h EXCEPT !.children[self] = new_children]
    ELSE LET child == h.children[self][i] IN
         IF h.node[child] \subseteq h.node[self]
         THEN rsc_loop(adopt_grandchildren(h, self, child),
                       self, i + 1, new_children)
         ELSE rsc_loop(remove_subset_children(h, child), self, i + 1,
                       Append(new_children, child))

remove_subset_children(h, self) == rsc_loop(h, self, 1, <<>>)

\* TD.move_superset_children; the result is [h |-> heap, root |-> new root].
RECURSIVE move_superset_children(_, _), msc_recurse(_, _, _, _)
msc_recurse(h, self, i, new_children) ==
    IF i > Len(h.children[self])
    THEN [h |-> add_children([h EXCEPT !.children[self] = <<>>],
                             self, new_children),
          root |-> self]
    ELSE LET r == move_superset_children(h, h.children[self][i])
         IN msc_recurse(r.h, self, i + 1, Append(new_children, r.root))

move_superset_children(h, self) ==
    LET cs == h.children[self]
        superset_children ==
            SelectSeq(cs, LAMBDA c : h.node[self] \subseteq h.node[c])
    IN IF superset_children # <<>>
       THEN LET child == Head(superset_children)
                other_children == SelectSeq(cs, LAMBDA c : c # child)
                h1 == add_children(h, child, other_children)
                h2 == [h1 EXCEPT !.children[self] = <<>>,
                                 !.parent[self] = None,
                                 !.parent[child] = None]
            IN move_superset_children(h2, child)
       ELSE msc_recurse(h, self, 1, <<>>)

wn_attach_directly(h, join_node, join_elements, c) ==
    add_child(h, join_node, c)

\* One round of the loop of weakly_normalize over the former children: a
\* child with the join bag is attached directly, any other child below a new
\* node that carries the join bag.
wn_attach_one(h, join_node, join_elements, c) ==
    IF h.node[c] = join_elements
    THEN add_child(h, join_node, c)
    ELSE LET h1 == NewTD(h, join_elements)
             new_child == Len(h1.node)
         IN add_child(add_child(h1, new_child, c), join_node, new_child)

RECURSIVE wn_attach(_, _, _, _)
wn_attach(h, join_node, join_elements, cs) ==
    IF cs = <<>> THEN h
    ELSE wn_attach(wn_attach_one(h, join_node, join_elements, Head(cs)),
                   join_node, join_elements, Tail(cs))

wn_join_node_always(h, self, join_elements) ==
    LET h1 == NewTD(h, join_elements)
    IN [h |-> add_child(h1, self, Len(h1.node)), join |-> Len(h1.node)]

\* The join node of weakly_normalize: self when the join bag is self's bag,
\* otherwise a new child of self.  The result is [h |-> heap, join |-> id].
wn_join_node(h, self, join_elements) ==
    IF join_elements # h.node[self]
    THEN LET h1 == NewTD(h, join_elements)
         IN [h |-> add_child(h1, self, Len(h1.node)), join |-> Len(h1.node)]
    ELSE [h |-> h, join |-> self]

\* TD.weakly_normalize
RECURSIVE weakly_normalize(_, _), wn_children(_, _)
wn_children(h, cs) ==
    IF cs = <<>> THEN h
    ELSE wn_children(weakly_normalize(h, Head(cs)), Tail(cs))

weakly_normalize(h, self) ==
    LET h0 == wn_children(h, h.children[self])
        cs == h0.children[self]
    IN IF Len(cs) >= 2
       THEN LET h1 == [h0 EXCEPT !.children[self] = <<>>]
                child_elements == UnionOver(h1, cs)
                join_elements == child_elements \cap h1.node[self]
                j == wn_join_node(h1, self, join_elements)
            IN wn_attach(j.h, j.join, join_elements, cs)
       ELSE h0

\* TD.__eq__ compares the bag and, recursively and in order, the children:
\* two trees are equal iff these nested values are.
RECURSIVE TDValue(_, _)
TDValue(h, self) ==
    [node |-> h.node[self],
     children |-> [i \in DOMAIN h.children[self] |->
                      TDValue(h, h.children[self][i])]]


\* ------------------------------------------------------------------------
\* Graph (graph.py)
\* ------------------------------------------------------------------------
\* Graph.__init__
Graph(n) ==
    [num_vertices |-> n,
     vertices |-> 1..n,
     neighbors |-> [v \in 1..n |-> {}]]

\* Graph.add_edge
add_edge(G, x, y) ==
    [G EXCEPT !.neighbors[x] = @ \cup {y},
              !.neighbors[y] = @ \cup {x}]

\* remove_vertex that leaves v in the neighbour sets
remove_vertex_only(G, v) ==
    [num_vertices |-> G.num_vertices - 1,
     vertices |-> G.vertices \ {v},
     neighbors |-> [x \in DOMAIN G.neighbors \ {v} |-> G.neighbors[x]]]

\* Graph.remove_vertex
remove_vertex(G, v) ==
    [num_vertices |-> G.num_vertices - 1,
     vertices |-> G.vertices \ {v},
     neighbors |-> [x \in DOMAIN G.neighbors \ {v} |->
                      IF x \in G.neighbors[v] THEN G.neighbors[x] \ {v}
                      ELSE G.neighbors[x]]]

\* Graph.neighborhood
neighborhood(G, vertex) == {vertex} \cup G.neighbors[vertex]

\* "not max_width or len(self.neighborhood(v)) - 1 <= max_width": None and
\* 0 are both false in the test "not max_width".
within_width(G, v, mw) ==
    \/ mw = <<>>
    \/ mw[1] = 0
    \/ Cardinality(neighborhood(G, v)) - 1 <= mw[1]

\* Graph.min_degree_vertex; order is the order in which "for v in
\* self.vertices" yields the vertices of the set.
RECURSIVE mdv_loop(_, _, _, _, _)
mdv_loop(G, order, mw, result, min_degree) ==
    IF order = <<>> THEN result
    ELSE LET v == Head(order) IN
         IF within_width(G, v, mw) /\ Cardinality(G.neighbors[v]) < min_degree
         THEN mdv_loop(G, Tail(order), mw, v, Cardinality(G.neighbors[v]))
         ELSE mdv_loop(G, Tail(order), mw, result, min_degree)

min_degree_vertex(G, order, mw) ==
    mdv_loop(G, order, mw, None, G.num_vertices)

num_neighbors(G, v) == Cardinality(G.neighbors[v])

\* Graph.num_unconnected_neighbor_pairs
num_unconnected_neighbor_pairs(G, v) ==
    Cardinality({p \in G.neighbors[v] \X G.neighbors[v] :
                    p[1] < p[2] /\ p[2] \notin G.neighbors[p[1]]})

\* Graph.min_fill_vertex
RECURSIVE mfv_loop(_, _, _, _, _)
mfv_loop(G, order, mw, result, min_fill) ==
    IF order = <<>> THEN result
    ELSE LET v == Head(order)
             fill == num_unconnected_neighbor_pairs(G, v)
         IN IF within_width(G, v, mw) /\ fill < min_fill
            THEN mfv_loop(G, Tail(order), mw, v, fill)
            ELSE mfv_loop(G, Tail(order), mw, result, min_fill)

min_fill_vertex(G, order, mw) ==
    mfv_loop(G, order, mw, None, G.num_vertices * G.num_vertices)

\* The orders in which iterating a set can yield its elements.
RECURSIVE Orders(_)
Orders(S) ==
    IF S = {} THEN {<<>>}
    ELSE UNION {{<<x>> \o o : o \in Orders(S \ {x})} : x \in S}

\* self.method(self.graph, self.max_width)
call_method(m, G, order, mw) ==
    IF m = "min_degree" THEN min_degree_vertex(G, order, mw)
    ELSE min_fill_vertex(G, order, mw)

\* ------------------------------------------------------------------------
\* Decomposer (decomposer.py)
\* ------------------------------------------------------------------------
WorkGraph ==
    [num_vertices |-> num_vertices, vertices |-> vertices,
     neighbors |-> neighbors]

no_fill(G, vertex) == G

\* "Eliminate vertex and connect neighbors": the add_edge calls of eliminate
connect_neighbors(G, vertex) ==
    [G EXCEPT !.neighbors =
        [x \in DOMAIN G.neighbors |->
            IF x \in G.neighbors[vertex]
            THEN G.neighbors[x] \cup (G.neighbors[vertex] \ {x})
            ELSE G.neighbors[x]]]

\* list.remove(x): removes the first occurrence
RECURSIVE list_remove(_, _)
list_remove(l, x) ==
    IF l = <<>> THEN <<>>
    ELSE IF Head(l) = x THEN Tail(l)
    ELSE <<Head(l)>> \o list_remove(Tail(l), x)

\* adopt_parentless that leaves the adopted subtrees in td_roots
RECURSIVE adopt_keep_roots(_, _, _)
adopt_keep_roots(st, new_subtree, subtrees) ==
    IF subtrees = <<>> THEN st
    ELSE LET subtree == Head(subtrees) IN
         IF st.h.parent[subtree] = None
         THEN adopt_keep_roots(
                 [h |-> add_child(st.h, new_subtree, subtree),
                  td_roots |-> st.td_roots],
                 new_subtree, Tail(subtrees))
         ELSE adopt_keep_roots(st, new_subtree, Tail(subtrees))

\* "Add children to this new subtree": the loop of eliminate over
\* bags_containing[vertex]; st is [h |-> heap, td_roots |-> list].
RECURSIVE adopt_parentless(_, _, _)
adopt_parentless(st, new_subtree, subtrees) ==
    IF subtrees = <<>> THEN st
    ELSE LET subtree == Head(subtrees) IN
         IF st.h.parent[subtree] = None
         THEN adopt_parentless(
                 [h |-> add_child(st.h, new_subtree, subtree),
                  td_roots |-> list_remove(st.td_roots, subtree)],
                 new_subtree, Tail(subtrees))
         ELSE adopt_parentless(st, new_subtree, Tail(subtrees))

\* The loop of decompose that calls remove_subset_children on every root
RECURSIVE remove_subset_children_all(_, _)
remove_subset_children_all(h, roots) ==
    IF roots = <<>> THEN h
    ELSE remove_subset_children_all(remove_subset_children(h, Head(roots)),
                                    Tail(roots))

\* [td.move_superset_children() for td in self.td_roots]
RECURSIVE move_superset_children_all(_, _, _)
move_superset_children_all(h, roots, done) ==
    IF roots = <<>> THEN [h |-> h, td_roots |-> done]
    ELSE LET r == move_superset_children(h, Head(roots))
         IN move_superset_children_all(r.h, Tail(roots), Append(done, r.root))

\* for x, y in zip(connect, connect[1:]): x.add_child(y)
RECURSIVE chain(_, _)
chain(h, connect) ==
    IF Len(connect) < 2 THEN h
    ELSE chain(add_child(h, connect[1], connect[2]), Tail(connect))

\* connect_roots leaving the parentless nodes as they are
connect_none(st, remainder) == st

\* Decomposer.connect_roots; st is [h |-> heap, td_roots |-> list].
connect_roots(st, remainder) ==
    LET connect == SelectSeq(st.td_roots,
                             LAMBDA td : st.h.node[td] \cap remainder = {})
        ignore == SelectSeq(st.td_roots,
                            LAMBDA td : st.h.node[td] \cap remainder # {})
    IN IF connect = <<>> THEN st
       ELSE [h |-> chain(st.h, connect),
             td_roots |-> <<connect[1]>> \o ignore]

\* The last loop of decompose giving the new root the whole bag of the old
\* root instead of its intersection with the remainder.
RECURSIVE finish_roots_whole_bag(_, _, _, _, _)
finish_roots_whole_bag(st, i, nz, mr, remainder) ==
    IF i > Len(st.td_roots) THEN st
    ELSE LET td == st.td_roots[i]
             h1 == IF nz = "weak" THEN weakly_normalize(st.h, td) ELSE st.h
             intersection_with_remainder == h1.node[td] \cap remainder
         IN IF mr /\ Cardinality(intersection_with_remainder)
                        < Cardinality(h1.node[td])
            THEN LET h2 == NewTD(h1, h1.node[td])
                     new_root == Len(h2.node)
                 IN finish_roots_whole_bag(
                        [h |-> add_child(h2, new_root, td),
                         td_roots |-> [st.td_roots EXCEPT ![i] = new_root]],
                        i + 1, nz, mr, remainder)
            ELSE finish_roots_whole_bag([h |-> h1, td_roots |-> st.td_roots],
                                        i + 1, nz, mr, remainder)

\* The last loop of decompose: normalize every root and, with
\* minimize_roots, put a root that is not inside the remainder under a new
\* root that holds its intersection with the remainder.
RECURSIVE finish_roots(_, _, _, _, _)
finish_roots(st, i, nz, mr, remainder) ==
    IF i > Len(st.td_roots) THEN st
    ELSE LET td == st.td_roots[i]
             h1 == IF nz = "weak" THEN weakly_normalize(st.h, td) ELSE st.h
             intersection_with_remainder == h1.node[td] \cap remainder
         IN IF mr /\ Cardinality(intersection_with_remainder)
                        < Cardinality(h1.node[td])
            THEN LET h2 == NewTD(h1, intersection_with_remainder)
                     new_root == Len(h2.node)
                 IN finish_roots(
                        [h |-> add_child(h2, new_root, td),
                         td_roots |-> [st.td_roots EXCEPT ![i] = new_root]],
                        i + 1, nz, mr, remainder)
            ELSE finish_roots([h |-> h1, td_roots |-> st.td_roots],
                              i + 1, nz, mr, remainder)

\* The input graphs: Graph(n) with any edges added by add_edge.
RECURSIVE add_edges(_, _)
add_edges(G, E) ==
    IF E = {} THEN G
    ELSE LET e == CHOOSE e \in E : TRUE
         IN add_edges(add_edge(G, e[1], e[2]), E \ {e})

GraphsOn(n) ==
    {add_edges(Graph(n), E) :
        E \in SUBSET {e \in (1..n) \X (1..n) : e[1] < e[2]}}

\* The graph of the __main__ block of decomposer.py
ExampleGraph ==
    add_edges(Graph(6), {<<1, 2>>, <<1, 3>>, <<1, 4>>, <<2, 5>>, <<2, 6>>,
                         <<3, 5>>, <<3, 6>>, <<4, 5>>, <<4, 6>>, <<5, 6>>})

\* A triangle with a pendant vertex: a bound of 1 lets the pendant vertex
\* be eliminated and nothing else.
PendantGraph ==
    add_edges(Graph(4), {<<1, 2>>, <<1, 3>>, <<2, 3>>, <<1, 4>>})

InputGraphs ==
    UNION {GraphsOn(n) : n \in 0..MaxVertices}
    \cup {ExampleGraph, PendantGraph}

\* Decomposer.__init__, but for the time limit among its keyword arguments
NewDecomposer ==
    /\ \E G \in InputGraphs :
          /\ g = G
          /\ vertices = G.vertices
          /\ neighbors = G.neighbors
          /\ num_vertices = G.num_vertices
          /\ bags_containing = [v \in G.vertices |-> <<>>]
    /\ method \in {"min_degree", "min_fill"}
    /\ max_width \in {<<>>} \cup {<<k>> : k \in 0..MaxWidth}
    /\ normalize \in {"none", "weak"}
    /\ minimize_roots \in BOOLEAN
    /\ td_roots = <<>>
    /\ node = <<>>
    /\ parent = <<>>
    /\ children = <<>>
    /\ root = None
    /\ pc = "eliminating"
    /\ formula = NoFormula
    /\ tables = <<>>
    /\ answer = NoAnswer
    /\ iterator = NoIterator
    /\ yielded = <<>>
    /\ args = NoArgs
    /\ expired = FALSE

\* Decomposer(graph, method, ...) without a time limit
InitDecomp == NewDecomposer /\ time_limit = <<>>

\* Decomposer(graph, method, ..., time_limit=k), as preprocess.py calls it:
\* __init__ reads max_width, normalize and minimize_roots from its keyword
\* arguments and nothing else.
InitDeadline ==
    NewDecomposer /\ time_limit \in {<<k>> : k \in 1..MaxTimeLimit}

\* One round of do_eliminations in which the method returns a vertex:
\* Decomposer.eliminate(v)
Eliminate ==
    /\ pc = "eliminating"
    /\ \E order \in Orders(vertices) :
          LET vertex == call_method(method, WorkGraph, order, max_width)
              new_bag == neighborhood(WorkGraph, vertex)
              h1 == NewTD(Heap, new_bag)
              new_subtree == Len(h1.node)
              G1 == remove_vertex(connect_neighbors(WorkGraph, vertex), vertex)
              st == adopt_parentless([h |-> h1, td_roots |-> td_roots],
                                     new_subtree, bags_containing[vertex])
          IN /\ vertex # None
             /\ vertices' = G1.vertices
             /\ neighbors' = G1.neighbors
             /\ num_vertices' = G1.num_vertices
             /\ node' = st.h.node
             /\ parent' = st.h.parent
             /\ children' = st.h.children
             /\ td_roots' = Append(st.td_roots, new_subtree)
             /\ bags_containing' =
                    [x \in DOMAIN bags_containing |->
                        IF x \in new_bag
                        THEN Append(bags_containing[x], new_subtree)
                        ELSE bags_containing[x]]
    /\ expired' \in {expired} \cup (IF time_limit = <<>> THEN {} ELSE {TRUE})
    /\ UNCHANGED <<pc, g, method, max_width, normalize, minimize_roots, root,
                   dpVars, time_limit>>

\* The round of do_eliminations in which the method returns None, and the
\* rest of decompose()
Finish ==
    /\ pc = "eliminating"
    /\ \E order \in Orders(vertices) :
          /\ call_method(method, WorkGraph, order, max_width) = None
          /\ LET h1 == remove_subset_children_all(Heap, td_roots)
                 st2 == move_superset_children_all(h1, td_roots, <<>>)
                 st3 == connect_roots(st2, vertices)
                 st4 == finish_roots(st3, 1, normalize, minimize_roots,
                                     vertices)
             IN /\ node' = st4.h.node
                /\ parent' = st4.h.parent
                /\ children' = st4.h.children
                /\ td_roots' = st4.td_roots
    /\ pc' = "done"
    /\ UNCHANGED <<g, vertices, neighbors, num_vertices, method, max_width,
                   normalize, minimize_roots, bags_containing, root, dpVars,
                   timeVars>>

NextDecomp == Eliminate \/ Finish

SpecDecomp == InitDecomp /\ [][NextDecomp]_vars

SpecDeadline == InitDeadline /\ [][NextDecomp]_vars

\* A Decomposer on a new Graph(n): the graph is then changed by add_edge,
\* remove_vertex and eliminate in any order.
InitGraph ==
    /\ NewDecomposer
    /\ time_limit = <<>>
    /\ g \in {Graph(n) : n \in 0..MaxVertices}
    /\ normalize = "none"
    /\ ~minimize_roots

\* graph.add_edge(x, y)
AddEdge ==
    /\ pc = "eliminating"
    /\ \E x, y \in 1..MaxVertices :
          IF x \in vertices /\ y \in vertices /\ x # y
          THEN /\ neighbors' = add_edge(WorkGraph, x, y).neighbors
               /\ pc' = pc
          ELSE /\ neighbors' = neighbors
               /\ pc' = "AssertionError"
    /\ UNCHANGED <<g, vertices, num_vertices, method, max_width, normalize,
                   minimize_roots, bags_containing, td_roots, heapVars, root,
                   dpVars, timeVars>>

\* graph.remove_vertex(v)
RemoveVertex ==
    /\ pc = "eliminating"
    /\ \E v \in 1..MaxVertices :
          IF v \in vertices
          THEN LET G1 == remove_vertex(WorkGraph, v)
               IN /\ vertices' = G1.vertices
                  /\ neighbors' = G1.neighbors
                  /\ num_vertices' = G1.num_vertices
                  /\ pc' = pc
          ELSE /\ UNCHANGED <<vertices, neighbors, num_vertices>>
               /\ pc' = "KeyError"
    /\ UNCHANGED <<g, method, max_width, normalize, minimize_roots,
                   bags_containing, td_roots, heapVars, root, dpVars,
                   timeVars>>

NextGraph == AddEdge \/ RemoveVertex \/ Eliminate

SpecGraph == InitGraph /\ [][NextGraph]_vars

\* ------------------------------------------------------------------------
\* What a tree decomposition is (stated independently of the code)
\* ------------------------------------------------------------------------
\* The TD objects of the tree below r, in preorder.
RECURSIVE Preorder(_, _), PreorderAll(_, _)
PreorderAll(h, cs) ==
    IF cs = <<>> THEN <<>>
    ELSE Preorder(h, Head(cs)) \o PreorderAll(h, Tail(cs))

Preorder(h, r) == <<r>> \o PreorderAll(h, h.children[r])

Nodes(h, r) == Range(Preorder(h, r))

\* No TD object is reached twice from r.
IsTree(h, r) == Cardinality(Nodes(h, r)) = Len(Preorder(h, r))

\* The nodes below r whose bag holds v and whose owner's bag does not: v's
\* occurrences form a connected subtree iff there is at most one of them.
TopsOf(h, r, v) ==
    {n \in Nodes(h, r) :
        /\ v \in h.node[n]
        /\ \A p \in Nodes(h, r) :
              n \in Range(h.children[p]) => v \notin h.node[p]}

Connected(h, r) ==
    \A v \in UNION {h.node[n] : n \in Nodes(h, r)} :
        Cardinality(TopsOf(h, r, v)) = 1

ValidTD(h, r, G) ==
    /\ IsTree(h, r)
    /\ \A v \in G.vertices : \E n \in Nodes(h, r) : v \in h.node[n]
    /\ \A x \in G.vertices : \A y \in G.neighbors[x] :
          \E n \in Nodes(h, r) : {x, y} \subseteq h.node[n]
    /\ Connected(h, r)

\* The largest graph the tree below r can decompose: its vertices are the
\* elements of the bags, two of them adjacent iff some bag holds both.
MaxGraph(h, r) ==
    LET V == UNION {h.node[n] : n \in Nodes(h, r)}
    IN [vertices |-> V,
        neighbors |-> [x \in V |->
            {y \in V \ {x} : \E n \in Nodes(h, r) : {x, y} \subseteq h.node[n]}]]

NoSubsetEdge(h, r) ==
    \A p \in Nodes(h, r) : \A i \in DOMAIN h.children[p] :
        LET c == h.children[p][i]
        IN /\ ~(h.node[c] \subseteq h.node[p])
           /\ ~(h.node[p] \subseteq h.node[c])

\* ------------------------------------------------------------------------
\* Input trees
\* ------------------------------------------------------------------------
\* A tree of k TD objects built as the tests build them: object i is created
\* with bag bags[i] and added to the object ps[i] created before it.
MakeTree(ps, bags) ==
    [node |-> bags,
     parent |-> ps,
     children |-> [i \in DOMAIN ps |->
        SelectSeq([j \in DOMAIN ps |-> j], LAMBDA j : ps[j] = i)]]

ParentArrays(k) ==
    {ps \in [1..k -> 0..(k - 1)] :
        /\ ps[1] = None
        /\ \A i \in 2..k : ps[i] \in 1..(i - 1)}

TreesOf(k, V) ==
    {MakeTree(ps, bags) : ps \in ParentArrays(k), bags \in [1..k -> SUBSET V]}

\* The tree of TestTD.test_weakly_normalize and the tree the test expects.
TestTree ==
    MakeTree(<<None, 1, 1, 1>>, <<{1, 2, 3}, {1, 4}, {2, 5}, {2, 6}>>)

TestTreeNormalized ==
    LET leaf(b) == [node |-> b, children |-> <<>>]
        over(b, c) == [node |-> b, children |-> <<c>>]
    IN over({1, 2, 3},
            [node |-> {1, 2},
             children |-> <<over({1, 2}, leaf({1, 4})),
                            over({1, 2}, leaf({2, 5})),
                            over({1, 2}, leaf({2, 6}))>>])

InputTrees ==
    UNION {TreesOf(k, 1..MaxTreeVar) : k \in 1..MaxTreeNodes} \cup {TestTree}

\* ------------------------------------------------------------------------
\* The transforms applied to a tree
\* ------------------------------------------------------------------------

InitTD ==
    /\ \E t \in InputTrees :
          /\ node = t.node
          /\ parent = t.parent
          /\ children = t.children
          /\ g = MaxGraph(t, 1)
    /\ root = 1
    /\ pc = "tree"
    /\ vertices = {}
    /\ neighbors = <<>>
    /\ num_vertices = 0
    /\ method = "none"
    /\ max_width = <<>>
    /\ normalize = "none"
    /\ minimize_roots = FALSE
    /\ bags_containing = <<>>
    /\ td_roots = <<>>
    /\ formula = NoFormula
    /\ tables = <<>>
    /\ answer = NoAnswer
    /\ iterator = NoIterator
    /\ yielded = <<>>
    /\ args = NoArgs
    /\ time_limit = <<>>
    /\ expired = FALSE

\* td.remove_subset_children() followed by td = td.move_superset_children()
Clean ==
    /\ pc = "tree"
    /\ LET r == move_superset_children(remove_subset_children(Heap, root), root)
       IN /\ node' = r.h.node
          /\ parent' = r.h.parent
          /\ children' = r.h.children
          /\ root' = r.root
    /\ pc' = "cleaned"
    /\ UNCHANGED <<graphVars, dpVars, timeVars>>

\* td.weakly_normalize(), called up to twice
Normalize ==
    /\ pc \in {"tree", "cleaned", "normalized"}
    /\ LET h == weakly_normalize(Heap, root)
       IN /\ node' = h.node
          /\ parent' = h.parent
          /\ children' = h.children
    /\ pc' = IF pc = "normalized" THEN "normalized2" ELSE "normalized"
    /\ UNCHANGED <<graphVars, root, dpVars, timeVars>>

NextTD == Clean \/ Normalize

SpecTD == InitTD /\ [][NextTD]_vars

\* ------------------------------------------------------------------------
\* Claims about the transforms (checked under SpecTD)
\* ------------------------------------------------------------------------
\* C5: remove_subset_children() followed by move_superset_children() turns a
\* valid tree decomposition into a tree, rooted at the returned node, that is
\* still a valid tree decomposition of the same graph and in which no bag is
\* a subset of the bag of its parent or of one of its children.
C5_CleanKeepsValid ==
    [][(pc = "tree" /\ pc' = "cleaned" /\ ValidTD(Heap, root, g))
        => /\ ValidTD(Heap', root', g)
           /\ NoSubsetEdge(Heap', root')
           /\ parent'[root'] = None]_vars

C5_Witness ==
    /\ pc = "cleaned"
    /\ root # 1
    /\ Len(Preorder(Heap, root)) >= 2
    /\ Len(Preorder(Heap, root)) < Len(node)
    /\ ValidTD(Heap, root, g)
    /\ NoSubsetEdge(Heap, root)

\* C6: after weakly_normalize() every node with two or more children has the
\* bag of each of its children, a node that had fewer than two children
\* keeps its child list (so a chain stays as it is), and the tree of
\* test_weakly_normalize becomes the tree that test expects.
C6_WeaklyNormalized ==
    [][(pc' \in {"normalized", "normalized2"} /\ pc' # pc)
        => /\ \A n \in Nodes(Heap', root') :
                Len(children'[n]) >= 2
                => \A i \in DOMAIN children'[n] :
                      node'[children'[n][i]] = node'[n]
           /\ \A n \in Nodes(Heap, root) :
                Len(children[n]) < 2 => children'[n] = children[n]
           /\ (\A n \in Nodes(Heap, root) : Len(children[n]) < 2)
                => Heap' = Heap
           /\ TDValue(Heap, root) = TDValue(TestTree, 1)
                => TDValue(Heap', root') = TestTreeNormalized]_vars

C6_Witness ==
    /\ pc = "normalized"
    /\ TDValue(Heap, root) = TestTreeNormalized

\* C7: a second weakly_normalize() leaves the tree equal, by TD.__eq__, to
\* the tree after the first.
C7_Idempotent ==
    [][(pc = "normalized" /\ pc' = "normalized2")
        => TDValue(Heap', root') = TDValue(Heap, root)]_vars

C7_Witness ==
    /\ pc = "normalized2"
    /\ \E n \in Nodes(Heap, root) :
          /\ Len(children[n]) >= 2
          /\ n > MaxTreeNodes + 1

\* ------------------------------------------------------------------------
\* Claims about the heuristics and the Decomposer (checked under SpecDecomp)
\* ------------------------------------------------------------------------
Degree(v) == Cardinality(neighbors[v])

\* The vertices the method may return: all of them without a bound, those of
\* degree at most the bound with one.
Eligible ==
    IF max_width = <<>> THEN vertices
    ELSE {v \in vertices : Degree(v) <= max_width[1]}

\* C1: in width-unbounded mode the tree decompose() returns for a non-empty
\* graph is a valid tree decomposition of the graph: every vertex and every
\* edge lies in a bag and the nodes holding a vertex are connected.
C1_ValidDecomposition ==
    (pc = "done" /\ max_width = <<>> /\ g.vertices # {})
        => /\ td_roots # <<>>
           /\ ValidTD(Heap, td_roots[1], g)

C1_Witness ==
    /\ pc = "done"
    /\ max_width = <<>>
    /\ normalize = "none"
    /\ ~minimize_roots
    /\ \E x \in g.vertices : g.neighbors[x] # {}
    /\ td_roots # <<>>
    /\ ValidTD(Heap, td_roots[1], g)
    /\ Len(Preorder(Heap, td_roots[1])) >= 2
    /\ Len(Preorder(Heap, td_roots[1])) < Len(node)

\* C8: with a bound max_width >= 0, min_degree_vertex returns a vertex of
\* degree <= max_width that has the least degree among those, and None
\* exactly when no vertex has degree <= max_width; without a bound it returns
\* a vertex of least degree, and None only for the empty graph.
C8_MinDegreeVertex ==
    [][(pc = "eliminating" /\ method = "min_degree")
        => IF pc' = "done" THEN Eligible = {}
           ELSE \E v \in Eligible :
                   /\ vertices' = vertices \ {v}
                   /\ \A u \in Eligible : Degree(v) <= Degree(u)]_vars

\* C9: with a bound max_width >= 0, min_fill_vertex returns a vertex of
\* degree <= max_width with the fewest non-adjacent pairs of neighbours among
\* those, and None exactly when no vertex has degree <= max_width.
C9_MinFillVertex ==
    [][(pc = "eliminating" /\ method = "min_fill" /\ max_width # <<>>)
        => IF pc' = "done" THEN Eligible = {}
           ELSE \E v \in Eligible :
                   /\ vertices' = vertices \ {v}
                   /\ \A u \in Eligible :
                         num_unconnected_neighbor_pairs(WorkGraph, v)
                            <= num_unconnected_neighbor_pairs(WorkGraph, u)]_vars

\* The run of the __main__ block of decomposer.py has ended.
ExampleDone ==
    /\ pc = "done"
    /\ g = ExampleGraph
    /\ max_width = <<>>
    /\ normalize = "none"
    /\ ~minimize_roots

RECURSIVE BitOr(_, _)
BitOr(a, b) ==
    IF a = 0 THEN b
    ELSE IF b = 0 THEN a
    ELSE (IF a % 2 = 1 \/ b % 2 = 1 THEN 1 ELSE 0)
         + 2 * BitOr(a \div 2, b \div 2)

\* delete_bit
delete_bit(bits, i) ==
    LET right_part == bits % (2 ^ i)
    IN BitOr((bits \div (2 ^ (i + 1))) * (2 ^ i), right_part)

\* Assignment.__init__
Assignment(variables, bits) == [variables |-> variables, bits |-> bits]

\* Assignment.index_of: the list position counted from the right; zip() into
\* a dict keeps the last position of a variable listed twice.
index_of(a, v) ==
    LET p == CHOOSE p \in DOMAIN a.variables :
                /\ a.variables[p] = v
                /\ \A q \in DOMAIN a.variables :
                      a.variables[q] = v => q <= p
    IN Len(a.variables) - p

\* Assignment.bit
bit(a, index) == (a.bits \div (2 ^ index)) % 2 = 1

\* Assignment.__getitem__ (the caller holds key in a.variables)
getitem(a, key) == bit(a, index_of(a, key))

\* Assignment.consistent
consistent(a, other) ==
    \A p \in DOMAIN a.variables :
        a.variables[p] \in Range(other.variables)
        => getitem(a, a.variables[p]) = getitem(other, a.variables[p])

\* Assignment.restrict
RECURSIVE restrict_bits(_, _, _)
restrict_bits(a, indices, bits) ==
    IF indices = <<>> THEN bits
    ELSE restrict_bits(a, Tail(indices),
                       BitOr(bits * 2, IF bit(a, Head(indices)) THEN 1 ELSE 0))

restrict(a, variables) ==
    LET present == SelectSeq(variables, LAMBDA v : v \in Range(a.variables))
        indices == [p \in DOMAIN present |-> index_of(a, present[p])]
    IN Assignment(variables, restrict_bits(a, indices, 0))

\* The assertion of Assignment.extend_disjoint
disjoint_ok(a, new_vars) == Range(a.variables) \cap Range(new_vars) = {}

\* extend_disjoint without the shift that makes room for the new bits
extend_disjoint_no_shift(a, new_vars, new_bits) ==
    Assignment(a.variables \o new_vars, BitOr(a.bits, new_bits))

\* Assignment.extend_disjoint
extend_disjoint(a, new_vars, new_bits) ==
    Assignment(a.variables \o new_vars,
               BitOr(a.bits * (2 ^ Len(new_vars)), new_bits))

\* The assertion of Assignment.combine
combine_ok(assignments) ==
    \A i, j \in DOMAIN assignments :
        i < j => consistent(assignments[i], assignments[j])

\* Assignment.combine: append all assignments, then delete the bits of the
\* variables seen before.
RECURSIVE combine_append(_, _, _)
combine_append(assignments, combined_vars, combined_bits) ==
    IF assignments = <<>>
    THEN Assignment(combined_vars, combined_bits)
    ELSE LET a == Head(assignments)
         IN combine_append(Tail(assignments), combined_vars \o a.variables,
                           BitOr(combined_bits * (2 ^ Len(a.variables)),
                                 a.bits))

RECURSIVE combine_dedup(_, _, _, _, _)
combine_dedup(combined_vars, i, seen_vars, final_vars, combined_bits) ==
    IF combined_vars = <<>> THEN Assignment(final_vars, combined_bits)
    ELSE LET v == Head(combined_vars) IN
         IF v \in seen_vars
         THEN combine_dedup(Tail(combined_vars), i - 1, seen_vars, final_vars,
                            delete_bit(combined_bits, i - 1))
         ELSE combine_dedup(Tail(combined_vars), i - 1, seen_vars \cup {v},
                            Append(final_vars, v), combined_bits)

\* combine without the elimination of duplicates
combine_no_dedup(assignments) ==
    IF assignments = <<>> THEN Assignment(<<>>, 0)
    ELSE combine_append(assignments, <<>>, 0)

combine(assignments) ==
    IF assignments = <<>> THEN Assignment(<<>>, 0)
    ELSE LET c == combine_append(assignments, <<>>, 0)
         IN combine_dedup(c.variables, Len(c.variables), {}, <<>>, c.bits)

\* Literal (formula.py)
Literal(sign, var) == [sign |-> sign, var |-> var]

\* a & b on non-negative integers
RECURSIVE BitAnd(_, _)
BitAnd(a, b) ==
    IF a = 0 \/ b = 0 THEN 0
    ELSE (IF a % 2 = 1 /\ b % 2 = 1 THEN 1 ELSE 0)
         + 2 * BitAnd(a \div 2, b \div 2)

\* Assignment.to_literals: the mask starts left of the first variable and
\* moves one bit to the right before each variable is read.
RECURSIVE to_literals_loop(_, _, _, _)
to_literals_loop(a, variables, mask, l) ==
    IF variables = <<>> THEN l
    ELSE LET m == mask \div 2
             sign == BitAnd(a.bits, m) # 0
         IN to_literals_loop(a, Tail(variables), m,
                             Append(l, Literal(sign, Head(variables))))

\* to_literals reading the first variable from the least significant bit
to_literals_lsb_first(a) ==
    [p \in DOMAIN a.variables |-> Literal(bit(a, p - 1), a.variables[p])]

to_literals(a) ==
    to_literals_loop(a, a.variables, 2 ^ Len(a.variables), <<>>)

\* ------------------------------------------------------------------------
\* Clause and Formula (formula.py)
\* ------------------------------------------------------------------------
Clause(weight, literals) == [weight |-> weight, literals |-> literals]

\* Clause.falsified
falsified(c, assignment) ==
    \A p \in DOMAIN c.literals :
        /\ c.literals[p].var \in Range(assignment.variables)
        /\ getitem(assignment, c.literals[p].var) # c.literals[p].sign

\* Clause.induced_by
induced_by(c, variables) ==
    \A p \in DOMAIN c.literals : c.literals[p].var \in variables

\* Formula.induced_clauses
induced_clauses(f, variables) ==
    SelectSeq(f.clauses, LAMBDA c : induced_by(c, variables))

\* Formula.variables
variables_of(f) ==
    UNION {{f.clauses[i].literals[p].var : p \in DOMAIN f.clauses[i].literals} :
              i \in DOMAIN f.clauses}

\* Formula.primal_graph
primal_graph(f) ==
    add_edges(Graph(Cardinality(variables_of(f))),
              UNION {{e \in {<<c.literals[p].var, c.literals[q].var>> :
                               p \in DOMAIN c.literals, q \in DOMAIN c.literals} :
                        e[1] < e[2]} : c \in Range(f.clauses)})

\* ------------------------------------------------------------------------
\* Table (dp.py)
\* ------------------------------------------------------------------------
\* list(s) for a set s of small integers: CPython lists them ascending.
RECURSIVE list_of(_)
list_of(S) ==
    IF S = {} THEN <<>>
    ELSE LET m == CHOOSE m \in S : \A x \in S : m <= x
         IN <<m>> \o list_of(S \ {m})

\* TD.introduced
introduced(h, t) ==
    IF h.children[t] # <<>>
    THEN h.node[t] \ UnionOver(h, h.children[t])
    ELSE h.node[t]

\* TD.shared
shared(h, t) ==
    [i \in DOMAIN h.children[t] |->
        SelectSeq(list_of(h.node[t]),
                  LAMBDA x : x \in h.node[h.children[t][i]])]

\* Table.new_vars and Table.shared_vars
\* new_vars listing the whole bag
new_vars_whole_bag(h, t) == list_of(h.node[t])

new_vars(h, t) == list_of(introduced(h, t))

shared_vars(h, t) == shared(h, t)

\* Table.local_clauses
local_clauses(f, h, t) == induced_clauses(f, h.node[t])

\* Table.shared_clauses: [[]] * k makes every entry the same list, to which a
\* clause without introduced variables is appended once for every child
\* whose local clauses hold it.
RECURSIVE shared_list(_, _, _, _)
shared_list(f, h, t, cs) ==
    IF cs = <<>> THEN <<>>
    ELSE LET c == Head(cs)
             holders == SelectSeq(h.children[t],
                LAMBDA ch : c \in Range(local_clauses(f, h, ch)))
         IN (IF \E p \in DOMAIN c.literals :
                   c.literals[p].var \in Range(new_vars(h, t))
             THEN <<>>
             ELSE [k \in 1..Len(holders) |-> c])
            \o shared_list(f, h, t, Tail(cs))

shared_clauses(f, h, t) ==
    [i \in DOMAIN h.children[t] |-> shared_list(f, h, t, local_clauses(f, h, t))]

\* Row.__init__; an EPT is kept as the positions of its rows in the tables
\* of the children.
Row(assignment, fals, cost, epts) ==
    [assignment |-> assignment, falsified |-> fals, cost |-> cost,
     epts |-> epts]

\* itertools.product over the rows of the children: the last child's rows
\* change fastest.
RECURSIVE product(_)
product(lens) ==
    IF lens = <<>> THEN << <<>> >>
    ELSE LET rest == product(Tail(lens))
             n == Len(rest)
         IN [k \in 1..(Head(lens) * n) |->
                <<((k - 1) \div n) + 1>> \o rest[((k - 1) % n) + 1]]

\* The rows an EPT points to.
ept_rows(tabs, h, t, ept) ==
    [i \in DOMAIN ept |-> tabs[h.children[t][i]][ept[i]]]

\* The assertion of Table.joinable
joinable_ok(h, t, rows) == Len(rows) = Len(h.children[t])

\* Table.joinable
joinable(rows) ==
    IF Len(rows) < 2 THEN TRUE
    ELSE \A i \in 2..Len(rows) :
            consistent(rows[i].assignment, rows[1].assignment)

RECURSIVE sum_weights(_)
sum_weights(S) ==
    IF S = {} THEN 0
    ELSE LET c == CHOOSE c \in S : TRUE
         IN c.weight + sum_weights(S \ {c})

RECURSIVE sum_seq(_)
sum_seq(s) == IF s = <<>> THEN 0 ELSE Head(s) + sum_seq(Tail(s))

\* find_row that finds no row
find_row_none(rows, assignment) == 0

\* self.rows[assignment]: the position of the row, 0 if there is none.
find_row(rows, assignment) ==
    IF \E k \in DOMAIN rows : rows[k].assignment = assignment
    THEN CHOOSE k \in DOMAIN rows : rows[k].assignment = assignment
    ELSE 0

\* add_candidate that keeps the row it finds, whatever the candidate costs
add_candidate_keep_first(st, assignment, fals, cost, ept) ==
    LET k == find_row(st.rows, assignment) IN
    IF k # 0 THEN st
    ELSE [st EXCEPT !.rows = Append(@, Row(assignment, fals, cost, <<ept>>))]

\* add_candidate that keeps the EPTs of the row a cheaper candidate replaces
add_candidate_keep_epts(st, assignment, fals, cost, ept) ==
    LET k == find_row(st.rows, assignment) IN
    IF k # 0
    THEN IF cost < st.rows[k].cost
         THEN [st EXCEPT !.rows[k] =
                  Row(assignment, fals, cost, Append(st.rows[k].epts, ept))]
         ELSE IF cost = st.rows[k].cost
         THEN IF st.rows[k].falsified = fals
              THEN [st EXCEPT !.rows[k].epts = Append(@, ept)]
              ELSE [st EXCEPT !.ok = FALSE]
         ELSE st
    ELSE [st EXCEPT !.rows = Append(@, Row(assignment, fals, cost, <<ept>>))]

\* Table.compute, lines 337-352: keep, replace or insert the row candidate.
add_candidate(st, assignment, fals, cost, ept) ==
    LET k == find_row(st.rows, assignment) IN
    IF k # 0
    THEN IF cost < st.rows[k].cost
         THEN [st EXCEPT !.rows[k] = Row(assignment, fals, cost, <<ept>>)]
         ELSE IF cost = st.rows[k].cost
         THEN IF st.rows[k].falsified = fals
              THEN [st EXCEPT !.rows[k].epts = Append(@, ept)]
              ELSE [st EXCEPT !.ok = FALSE]
         ELSE st
    ELSE [st EXCEPT !.rows = Append(@, Row(assignment, fals, cost, <<ept>>))]

\* Table.compute, lines 327-352: the loop over the values of the new
\* variables.
RECURSIVE bits_loop(_, _, _, _, _, _, _, _)
bits_loop(st, f, h, t, inherited_assignment, forgotten_cost, ept, bits) ==
    IF ~st.ok \/ bits = 2 ^ Len(new_vars(h, t)) THEN st
    ELSE IF ~disjoint_ok(inherited_assignment, new_vars(h, t))
    THEN [st EXCEPT !.ok = FALSE]
    ELSE LET assignment == extend_disjoint(inherited_assignment,
                                           new_vars(h, t), bits)
             fals == {c \in Range(local_clauses(f, h, t)) :
                         falsified(c, assignment)}
             cost == forgotten_cost + sum_weights(fals)
         IN bits_loop(add_candidate(st, assignment, fals, cost, ept),
                      f, h, t, inherited_assignment, forgotten_cost, ept,
                      bits + 1)

\* Table.compute, lines 305-352: the loop over the EPTs.
RECURSIVE ept_loop(_, _, _, _, _, _)
ept_loop(st, f, h, t, tabs, epts) ==
    IF ~st.ok \/ epts = <<>> THEN st
    ELSE LET ept == Head(epts)
             rows == ept_rows(tabs, h, t, ept)
             restricted_assignments ==
                [i \in DOMAIN rows |->
                    restrict(rows[i].assignment, shared_vars(h, t)[i])]
             shared_cost ==
                [i \in DOMAIN rows |->
                    sum_weights({c \in rows[i].falsified :
                        c \in Range(shared_clauses(f, h, t)[i])})]
             forgotten_cost ==
                sum_seq([i \in DOMAIN rows |-> rows[i].cost - shared_cost[i]])
         IN IF ~joinable_ok(h, t, rows)
            THEN [st EXCEPT !.ok = FALSE]
            ELSE IF ~joinable(rows)
            THEN ept_loop(st, f, h, t, tabs, Tail(epts))
            ELSE IF ~combine_ok(restricted_assignments)
            THEN [st EXCEPT !.ok = FALSE]
            ELSE ept_loop(bits_loop(st, f, h, t,
                                    combine(restricted_assignments),
                                    forgotten_cost, ept, 0),
                          f, h, t, tabs, Tail(epts))

\* Table.compute for the table of node t, the tables of its children being
\* computed: the rows in insertion order, and whether no assertion failed.
compute(f, h, t, tabs) ==
    ept_loop([rows |-> <<>>, ok |-> TRUE], f, h, t, tabs,
             product([i \in DOMAIN h.children[t] |->
                         Len(tabs[h.children[t][i]])]))

\* unsat() taking one row of positive cost to be enough
unsat_any(rows) == \E k \in DOMAIN rows : rows[k].cost > 0

\* Table.unsat
unsat(rows) == \A k \in DOMAIN rows : rows[k].cost > 0

\* Table.sat
sat(rows) == ~unsat(rows)

\* locally_unsat taking one row with a falsified clause to be enough
locally_unsat_some(rows) == \E k \in DOMAIN rows : rows[k].falsified # {}

\* Table.locally_unsat
locally_unsat(rows) == \A k \in DOMAIN rows : rows[k].falsified # {}

\* Table.deep_unsat_descendants: the tables it yields, in order.
RECURSIVE deep_unsat_descendants(_, _, _), deep_unsat_all(_, _, _)
deep_unsat_all(tabs, h, cs) ==
    IF cs = <<>> THEN <<>>
    ELSE deep_unsat_descendants(tabs, h, Head(cs))
         \o deep_unsat_all(tabs, h, Tail(cs))

deep_unsat_descendants(tabs, h, t) ==
    IF /\ unsat(tabs[t])
       /\ \A i \in DOMAIN h.children[t] : sat(tabs[h.children[t][i]])
    THEN <<t>>
    ELSE (IF locally_unsat(tabs[t]) THEN <<t>> ELSE <<>>)
         \o deep_unsat_all(tabs, h, h.children[t])

\* select_falsifying_ep: the place in the EPT of the first row of positive
\* cost, 0 where the assertion fails.
select_falsifying_ep(rows) ==
    IF \E i \in DOMAIN rows : rows[i].cost > 0
    THEN CHOOSE i \in DOMAIN rows :
            /\ rows[i].cost > 0
            /\ \A j \in 1..(i - 1) : ~(rows[j].cost > 0)
    ELSE 0

\* Table.unsat_core, lines 366-377; a stack entry names a table and a row.
RECURSIVE core_loop(_, _, _, _)
core_loop(tabs, h, stack, core) ==
    IF stack = <<>> THEN [ok |-> TRUE, core |-> core]
    ELSE LET e == stack[Len(stack)]
             rest == SubSeq(stack, 1, Len(stack) - 1)
             row == tabs[e.table][e.row]
             picks == [k \in DOMAIN row.epts |->
                         select_falsifying_ep(
                             ept_rows(tabs, h, e.table, row.epts[k]))]
         IN IF row.falsified # {}
            THEN core_loop(tabs, h, rest, core \cup row.falsified)
            ELSE IF \E k \in DOMAIN picks : picks[k] = 0
            THEN [ok |-> FALSE, core |-> core]
            ELSE core_loop(tabs, h,
                    rest \o [k \in DOMAIN picks |->
                        [table |-> h.children[e.table][picks[k]],
                         row |-> row.epts[k][picks[k]]]],
                    core)

unsat_core(tabs, h, t) ==
    IF ~unsat(tabs[t]) THEN [ok |-> FALSE, core |-> {}]
    ELSE core_loop(tabs, h,
                   [k \in DOMAIN tabs[t] |-> [table |-> t, row |-> k]], {})

\* list(table.unsat_cores()): the tables deep_unsat_descendants yields and
\* the core of each, and whether no assertion failed.
unsat_cores(tabs, h, t) ==
    LET ds == deep_unsat_descendants(tabs, h, t)
        rs == [i \in DOMAIN ds |-> unsat_core(tabs, h, ds[i])]
    IN [ok |-> \A i \in DOMAIN rs : rs[i].ok,
        tables |-> ds,
        cores |-> [i \in DOMAIN rs |-> rs[i].core]]

\* ------------------------------------------------------------------------
\* Row.extend and RowIterator (dp.py)
\* ------------------------------------------------------------------------
\* The assertions of Row.extend and of the Assignment.combine it calls; ept
\* is a tuple of rows.
extend_ok(row, ept) ==
    /\ \A i \in DOMAIN ept : ept[i].cost <= row.cost
    /\ combine_ok(<<row.assignment>> \o [i \in DOMAIN ept |-> ept[i].assignment])

\* extend that keeps the falsified set of the row alone
extend_own_falsified(row, ept) ==
    Row(combine(<<row.assignment>> \o [i \in DOMAIN ept |-> ept[i].assignment]),
        row.falsified, row.cost, <<>>)

\* Row.extend
extend(row, ept) ==
    Row(combine(<<row.assignment>> \o [i \in DOMAIN ept |-> ept[i].assignment]),
        row.falsified \cup UNION {ept[i].falsified : i \in DOMAIN ept},
        row.cost, <<>>)

\* RowIterator.__init__ for row k of the table of t: ept_it counts the EPTs
\* taken from iter(row.epts); current_ept is <<>> for None and <<ept>>
\* otherwise.
RowIterator(t, k) ==
    [table |-> t, row |-> k, ept_it |-> 0, current_ept |-> <<>>,
     child_iterators |-> <<>>, current_combination |-> <<>>]

\* What a call on an iterator gives: the iterator after it, whether it
\* returned ("value") or raised, and the row returned.
Outcome(status, it, value) == [status |-> status, it |-> it, value |-> value]

RECURSIVE row_next(_, _, _), next_ept(_, _, _), increment(_, _, _, _),
          first_values(_, _, _, _, _)

\* [next(it) for it in self.child_iterators]
first_values(tabs, h, its, done, vals) ==
    IF its = <<>> THEN Outcome("value", done, vals)
    ELSE LET r == row_next(tabs, h, Head(its))
         IN IF r.status # "value" THEN Outcome(r.status, done \o its, vals)
            ELSE first_values(tabs, h, Tail(its), Append(done, r.it),
                              Append(vals, r.value))

\* RowIterator.next_ept
next_ept(tabs, h, it) ==
    LET epts == tabs[it.table][it.row].epts IN
    IF it.ept_it = Len(epts) THEN Outcome("StopIteration", it, <<>>)
    ELSE LET ept == epts[it.ept_it + 1]
             r == first_values(tabs, h,
                     [i \in DOMAIN ept |->
                         RowIterator(h.children[it.table][i], ept[i])],
                     <<>>, <<>>)
         IN Outcome(r.status,
                    [it EXCEPT !.ept_it = @ + 1,
                               !.current_ept = <<ept>>,
                               !.child_iterators = r.it,
                               !.current_combination = r.value],
                    <<>>)

\* increment that does not restart the iterator of a child that is exhausted
increment_no_reset(tabs, h, it, i) ==
    IF i = Len(it.child_iterators) + 1 THEN next_ept(tabs, h, it)
    ELSE LET r == row_next(tabs, h, it.child_iterators[i]) IN
         IF r.status = "value"
         THEN Outcome("value",
                      [it EXCEPT !.child_iterators[i] = r.it,
                                 !.current_combination[i] = r.value],
                      <<>>)
         ELSE IF r.status = "AssertionError"
         THEN Outcome("AssertionError", it, <<>>)
         ELSE increment(tabs, h, it, i + 1)

\* RowIterator.increment; i counts the children from 1.
increment(tabs, h, it, i) ==
    IF i = Len(it.child_iterators) + 1 THEN next_ept(tabs, h, it)
    ELSE LET r == row_next(tabs, h, it.child_iterators[i]) IN
         IF r.status = "value"
         THEN Outcome("value",
                      [it EXCEPT !.child_iterators[i] = r.it,
                                 !.current_combination[i] = r.value],
                      <<>>)
         ELSE IF r.status = "AssertionError"
         THEN Outcome("AssertionError", it, <<>>)
         ELSE LET r2 == row_next(tabs, h,
                            RowIterator(h.children[it.table][i],
                                        it.current_ept[1][i]))
              IN IF r2.status # "value" THEN Outcome(r2.status, it, <<>>)
                 ELSE increment(tabs, h,
                         [it EXCEPT !.child_iterators[i] = r2.it,
                                    !.current_combination[i] = r2.value],
                         i + 1)

\* RowIterator.__next__: "not self.current_ept" holds for None and for the
\* empty tuple.
row_next(tabs, h, it) ==
    LET r == IF it.current_ept = <<>> \/ it.current_ept[1] = <<>>
             THEN next_ept(tabs, h, it)
             ELSE increment(tabs, h, it, 1)
        row == tabs[it.table][it.row]
    IN IF r.status # "value" THEN r
       ELSE IF ~extend_ok(row, r.it.current_combination)
       THEN Outcome("AssertionError", r.it, <<>>)
       ELSE Outcome("value", r.it, extend(row, r.it.current_combination))

\* ------------------------------------------------------------------------
\* Dynamic programming on a tree decomposition of a formula
\* ------------------------------------------------------------------------
\* The clauses of the input formulas: one literal, or two literals on two
\* variables, over 1..MaxVar, with the weights 1..MaxWeight.
ClausePool ==
    {Clause(w, ls) :
        w \in 1..MaxWeight,
        ls \in {<<Literal(s, v)>> : s \in BOOLEAN, v \in 1..MaxVar}
               \cup {ls2 \in {<<Literal(s1, v1), Literal(s2, v2)>> :
                                s1 \in BOOLEAN, s2 \in BOOLEAN,
                                v1 \in 1..MaxVar, v2 \in 1..MaxVar} :
                       ls2[1].var < ls2[2].var}}

\* Formula.consecutive_variables
consecutive_variables(f) ==
    LET vs == variables_of(f)
        max_var == CHOOSE m \in vs : \A x \in vs : x <= m
        min_var == CHOOSE m \in vs : \A x \in vs : m <= x
    IN min_var = 1 /\ Cardinality(vs) = max_var

\* The formula of the end-to-end scenario: the hard clause (-1 | -2) and
\* the soft clauses (1) and (2) of weight 5.
ExampleFormula ==
    [clauses |-> <<Clause(10, <<Literal(FALSE, 1), Literal(FALSE, 2)>>),
                   Clause(5, <<Literal(TRUE, 1)>>),
                   Clause(5, <<Literal(TRUE, 2)>>)>>,
     hard_weight |-> 10]

\* The input formulas: the clause weight MaxWeight is the hard weight.
InputFormulas ==
    {f \in {[clauses |-> cs, hard_weight |-> MaxWeight] :
              cs \in UNION {[1..k -> ClausePool] : k \in 1..MaxClauses}} :
        consecutive_variables(f)}
    \cup {ExampleFormula}

\* A root with three leaves, as no normalization has been applied to it.
StarTree == MakeTree(<<None, 1, 1, 1>>, <<{1, 2}, {1}, {2}, {2}>>)

\* The tree decompositions of the primal graph of f handed to Table.
InputTDs(f) ==
    {t \in UNION {TreesOf(k, variables_of(f)) : k \in 1..MaxTableNodes}
           \cup {StarTree} :
        ValidTD(t, 1, primal_graph(f))}

\* The tables are computed children first, in the order of the children.
RECURSIVE Postorder(_, _), PostorderAll(_, _)
PostorderAll(h, cs) ==
    IF cs = <<>> THEN <<>>
    ELSE Postorder(h, Head(cs)) \o PostorderAll(h, Tail(cs))

Postorder(h, r) == PostorderAll(h, h.children[r]) \o <<r>>

\* A formula and a tree decomposition of its primal graph on which a row
\* of the root has one EPT of two rows that have two extensions each.
TwoByTwoFormula ==
    [clauses |-> <<Clause(1, <<Literal(TRUE, 1)>>),
                   Clause(1, <<Literal(FALSE, 1)>>),
                   Clause(1, <<Literal(TRUE, 2)>>),
                   Clause(1, <<Literal(FALSE, 2)>>)>>,
     hard_weight |-> 5]

TwoByTwoTree == MakeTree(<<None, 1, 2, 1, 4>>, <<{}, {}, {1}, {}, {2}>>)

\* An unsatisfiable formula none of whose clauses is falsified by every row
\* of one bag: (1 | 2), (1 | -2), (-1 | 3), (-1 | -3) of weight 1.
BacktrackFormula ==
    [clauses |-> <<Clause(1, <<Literal(TRUE, 1), Literal(TRUE, 2)>>),
                   Clause(1, <<Literal(TRUE, 1), Literal(FALSE, 2)>>),
                   Clause(1, <<Literal(FALSE, 1), Literal(TRUE, 3)>>),
                   Clause(1, <<Literal(FALSE, 1), Literal(FALSE, 3)>>)>>,
     hard_weight |-> 5]

\* The root {1, 3} with the single child {1, 2}.
BacktrackTree == MakeTree(<<None, 1>>, <<{1, 3}, {1, 2}>>)

\* root_table = Table(td, formula)
InitDP ==
    /\ \E f \in InputFormulas \cup {TwoByTwoFormula, BacktrackFormula} :
       \E t \in IF f = TwoByTwoFormula THEN {TwoByTwoTree}
              ELSE IF f = BacktrackFormula THEN {BacktrackTree}
              ELSE InputTDs(f) :
          /\ formula = f
          /\ node = t.node
          /\ parent = t.parent
          /\ children = t.children
          /\ g = primal_graph(f)
    /\ root = 1
    /\ pc = "table"
    /\ tables = <<>>
    /\ answer = NoAnswer
    /\ iterator = NoIterator
    /\ yielded = <<>>
    /\ args = NoArgs
    /\ time_limit = <<>>
    /\ expired = FALSE
    /\ vertices = {}
    /\ neighbors = <<>>
    /\ num_vertices = 0
    /\ method = "none"
    /\ max_width = <<>>
    /\ normalize = "none"
    /\ minimize_roots = FALSE
    /\ bags_containing = <<>>
    /\ td_roots = <<>>

\* root_table.compute(), one table at a time: the next table in the order
\* of the recursion gets its rows, or an assertion fails.
Compute ==
    /\ pc = "table"
    /\ LET order == Postorder(Heap, root)
           t == order[Cardinality(DOMAIN tables) + 1]
           r == compute(formula, Heap, t, tables)
       IN IF r.ok
          THEN /\ tables' = [n \in DOMAIN tables \cup {t} |->
                                IF n = t THEN r.rows ELSE tables[n]]
               /\ pc' = IF t = root THEN "computed" ELSE "table"
          ELSE /\ tables' = tables
               /\ pc' = "AssertionError"
    /\ UNCHANGED <<graphVars, heapVars, root, formula, args, answer, timeVars,
                   iterVars>>

\* table.unsat() for a table of the computed tree
Unsat ==
    /\ pc = "computed"
    /\ \E t \in DOMAIN tables :
          answer' = [op |-> "unsat", table |-> t, value |-> unsat(tables[t])]
    /\ UNCHANGED <<pc, graphVars, heapVars, root, formula, args, tables,
                   timeVars,
                   iterVars>>

\* table.sat() for a table of the computed tree
Sat ==
    /\ pc = "computed"
    /\ \E t \in DOMAIN tables :
          answer' = [op |-> "sat", table |-> t, value |-> sat(tables[t])]
    /\ UNCHANGED <<pc, graphVars, heapVars, root, formula, args, tables,
                   timeVars,
                   iterVars>>

\* table.unsat_core() for a table of the computed tree
UnsatCore ==
    /\ pc = "computed"
    /\ \E t \in DOMAIN tables :
          LET r == unsat_core(tables, Heap, t)
          IN IF r.ok
             THEN /\ answer' = [op |-> "unsat_core", table |-> t,
                                value |-> r.core]
                  /\ pc' = pc
             ELSE /\ answer' = answer
                  /\ pc' = "AssertionError"
    /\ UNCHANGED <<graphVars, heapVars, root, formula, args, tables, timeVars,
                   iterVars>>

\* list(table.deep_unsat_descendants()) for a table of the computed tree
DeepUnsatDescendants ==
    /\ pc = "computed"
    /\ \E t \in DOMAIN tables :
          answer' = [op |-> "deep_unsat_descendants", table |-> t,
                     value |-> deep_unsat_descendants(tables, Heap, t)]
    /\ UNCHANGED <<pc, graphVars, heapVars, root, formula, args, tables,
                   timeVars,
                   iterVars>>

\* iter(row) for a row of a table of the computed tree
Iter ==
    /\ pc = "computed"
    /\ \E t \in DOMAIN tables : \E k \in DOMAIN tables[t] :
          iterator' = RowIterator(t, k)
    /\ yielded' = <<>>
    /\ answer' = [op |-> "iter"]
    /\ UNCHANGED <<pc, graphVars, heapVars, root, formula, args, tables,
                   timeVars>>

\* next(iterator), as a for loop calls it until StopIteration is raised
IterNext ==
    /\ pc = "computed"
    /\ iterator # NoIterator
    /\ answer.op \in {"iter", "next"}
    /\ LET r == row_next(tables, Heap, iterator)
       IN /\ iterator' = r.it
          /\ IF r.status = "value"
             THEN /\ yielded' = Append(yielded, r.value)
                  /\ answer' = [op |-> "next"]
                  /\ pc' = pc
             ELSE IF r.status = "StopIteration"
             THEN /\ yielded' = yielded
                  /\ answer' = [op |-> "StopIteration"]
                  /\ pc' = pc
             ELSE /\ yielded' = yielded
                  /\ answer' = answer
                  /\ pc' = "AssertionError"
    /\ UNCHANGED <<graphVars, heapVars, root, formula, args, tables, timeVars>>

NextIter == Compute \/ Iter \/ IterNext

SpecIter == InitDP /\ [][NextIter]_vars

\* list(table.unsat_cores()) for a table of the computed tree
UnsatCores ==
    /\ pc = "computed"
    /\ \E t \in DOMAIN tables :
          LET r == unsat_cores(tables, Heap, t)
          IN /\ answer' = [op |-> "unsat_cores", table |-> t,
                           status |-> IF r.ok THEN "ok"
                                      ELSE "AssertionError",
                           tables |-> r.tables, value |-> r.cores]
             /\ pc' = IF r.ok THEN pc ELSE "AssertionError"
    /\ UNCHANGED <<graphVars, heapVars, root, formula, args, tables, timeVars,
                   iterVars>>

NextCores == Compute \/ UnsatCores

SpecCores == InitDP /\ [][NextCores]_vars

\* root_table.compute() alone
NextCompute == Compute

SpecCompute == InitDP /\ [][NextCompute]_vars

NextDP == Compute \/ Unsat \/ Sat \/ UnsatCore \/ DeepUnsatDescendants

SpecDP == InitDP /\ [][NextDP]_vars

\* ------------------------------------------------------------------------
\* Calls on Assignment (dp.py), as test_dp.py makes them
\* ------------------------------------------------------------------------
\* The variables of the assignments that are combined, restricted and
\* extended are drawn from 1..MaxAssignVar; to_literals is also given the
\* assignments of up to MaxLiterals variables.  Two assignments are combined
\* whether or not they are consistent, three when they are or when none has
\* more than one variable.
Ascending(S) ==
    LET RECURSIVE asc(_)
        asc(T) == IF T = {} THEN <<>>
                  ELSE LET m == CHOOSE x \in T : \A y \in T : x <= y
                       IN <<m>> \o asc(T \ {m})
    IN asc(S)

InjectiveLists(pool) ==
    {s \in UNION {[1..k -> pool] : k \in 0..Cardinality(pool)} :
        \A i, j \in DOMAIN s : i # j => s[i] # s[j]}

AssignmentsOver(lists) ==
    UNION {{Assignment(vs, b) : b \in 0..(2 ^ Len(vs) - 1)} : vs \in lists}

PoolLists == InjectiveLists(1..MaxAssignVar)

PoolAssignments == AssignmentsOver(PoolLists)

LiteralAssignments ==
    AssignmentsOver({Ascending(S) : S \in SUBSET (1..MaxLiterals)})

\* The assignments of at most one variable
ShortAssignments == {a \in PoolAssignments : Len(a.variables) <= 1}

Call(assignments, variables) ==
    [assignments |-> assignments, variables |-> variables]

InputCalls ==
    {Call(<<>>, <<>>)}
    \cup {Call(<<a>>, <<>>) : a \in LiteralAssignments}
    \cup {Call(<<a>>, vs) : a \in PoolAssignments, vs \in PoolLists}
    \cup {Call(<<a, b>>, <<>>) : a \in PoolAssignments, b \in PoolAssignments}
    \cup {Call(t, <<>>) :
             t \in {t \in PoolAssignments \X PoolAssignments
                               \X PoolAssignments : combine_ok(t)}}
    \cup {Call(<<a, b, c>>, <<>>) :
             a \in ShortAssignments, b \in ShortAssignments,
             c \in ShortAssignments}

InitAssign ==
    /\ args \in InputCalls
    /\ pc = "assignment"
    /\ answer = NoAnswer
    /\ formula = NoFormula
    /\ tables = <<>>
    /\ iterator = NoIterator
    /\ yielded = <<>>
    /\ time_limit = <<>>
    /\ expired = FALSE
    /\ g = Graph(0)
    /\ vertices = {}
    /\ neighbors = <<>>
    /\ num_vertices = 0
    /\ method = "none"
    /\ max_width = <<>>
    /\ normalize = "none"
    /\ minimize_roots = FALSE
    /\ bags_containing = <<>>
    /\ td_roots = <<>>
    /\ node = <<>>
    /\ parent = <<>>
    /\ children = <<>>
    /\ root = None

\* a.to_literals()
ToLiterals ==
    /\ pc = "assignment"
    /\ Len(args.assignments) = 1
    /\ args.variables = <<>>
    /\ answer' = [op |-> "to_literals", status |-> "ok",
                  value |-> to_literals(args.assignments[1])]
    /\ pc' = "returned"
    /\ UNCHANGED <<graphVars, heapVars, root, formula, args, tables,
                   timeVars, iterVars>>

combine_call(assignments) ==
    IF combine_ok(assignments)
    THEN [status |-> "ok", value |-> combine(assignments)]
    ELSE [status |-> "AssertionError", value |-> Assignment(<<>>, 0)]

\* combine(combine(a, b), c) is the grouping "left", combine(a, combine(b, c))
\* the grouping "right"
combine_grouped(assignments, grouping) ==
    LET as == assignments
        inner == IF grouping = "left"
                 THEN combine_call(<<as[1], as[2]>>)
                 ELSE combine_call(<<as[2], as[3]>>)
    IN IF inner.status # "ok" THEN inner
       ELSE IF grouping = "left"
       THEN combine_call(<<inner.value, as[3]>>)
       ELSE combine_call(<<as[1], inner.value>>)

\* Assignment.combine(*assignments) and, for three assignments, the two
\* nested calls on the same assignments
Combine ==
    /\ pc = "assignment"
    /\ args.variables = <<>>
    /\ LET flat == combine_call(args.assignments)
           nested == Len(args.assignments) = 3
       IN answer' = [op |-> "combine", status |-> flat.status,
                     value |-> flat.value,
                     left |-> IF nested
                              THEN combine_grouped(args.assignments, "left")
                              ELSE flat,
                     right |-> IF nested
                               THEN combine_grouped(args.assignments, "right")
                               ELSE flat]
    /\ pc' = "returned"
    /\ UNCHANGED <<graphVars, heapVars, root, formula, args, tables,
                   timeVars, iterVars>>

extend_disjoint_call(a, vs, bs) ==
    IF disjoint_ok(a, vs)
    THEN [status |-> "ok", value |-> extend_disjoint(a, vs, bs)]
    ELSE [status |-> "AssertionError", value |-> Assignment(<<>>, 0)]

\* a.extend_disjoint(b.variables, b.bits)
ExtendDisjoint ==
    /\ pc = "assignment"
    /\ Len(args.assignments) = 2
    /\ LET r == extend_disjoint_call(args.assignments[1],
                                     args.assignments[2].variables,
                                     args.assignments[2].bits)
       IN answer' = [op |-> "extend_disjoint", status |-> r.status,
                     value |-> r.value]
    /\ pc' = "returned"
    /\ UNCHANGED <<graphVars, heapVars, root, formula, args, tables,
                   timeVars, iterVars>>

\* a.restrict(variables)
Restrict ==
    /\ pc = "assignment"
    /\ Len(args.assignments) = 1
    /\ answer' = [op |-> "restrict", status |-> "ok",
                  value |-> restrict(args.assignments[1], args.variables)]
    /\ pc' = "returned"
    /\ UNCHANGED <<graphVars, heapVars, root, formula, args, tables,
                   timeVars, iterVars>>

\* s is a sub-list of l: it picks variables of l, in the order of l
IsSubList(s, l) ==
    /\ Range(s) \subseteq Range(l)
    /\ s = SelectSeq(l, LAMBDA v : v \in Range(s))

Complement(l, s) == SelectSeq(l, LAMBDA v : v \notin Range(s))

\* a.restrict(S).extend_disjoint(C, a.restrict(C).bits), C the variables of
\* a that are not in S
RestrictExtend ==
    /\ pc = "assignment"
    /\ Len(args.assignments) = 1
    /\ IsSubList(args.variables, args.assignments[1].variables)
    /\ LET a == args.assignments[1]
           C == Complement(a.variables, args.variables)
           r == extend_disjoint_call(restrict(a, args.variables), C,
                                     restrict(a, C).bits)
       IN answer' = [op |-> "restrict_extend", status |-> r.status,
                     value |-> r.value]
    /\ pc' = "returned"
    /\ UNCHANGED <<graphVars, heapVars, root, formula, args, tables,
                   timeVars, iterVars>>

\* a.consistent(b)
Consistent ==
    /\ pc = "assignment"
    /\ Len(args.assignments) = 2
    /\ answer' = [op |-> "consistent", status |-> "ok",
                  value |-> consistent(args.assignments[1],
                                       args.assignments[2])]
    /\ pc' = "returned"
    /\ UNCHANGED <<graphVars, heapVars, root, formula, args, tables,
                   timeVars, iterVars>>

\* table.joinable(rows) for rows that have the given assignments, one per
\* child of the table
Joinable ==
    /\ pc = "assignment"
    /\ args.variables = <<>>
    /\ LET rows == [i \in DOMAIN args.assignments |->
                       Row(args.assignments[i], {}, 0, <<>>)]
       IN answer' = [op |-> "joinable", status |-> "ok",
                     value |-> joinable(rows)]
    /\ pc' = "returned"
    /\ UNCHANGED <<graphVars, heapVars, root, formula, args, tables,
                   timeVars, iterVars>>

NextAssign ==
    \/ ToLiterals \/ Combine \/ ExtendDisjoint \/ Restrict \/ RestrictExtend
    \/ Consistent \/ Joinable

SpecAssign == InitAssign /\ [][NextAssign]_vars

\* ------------------------------------------------------------------------
\* What the tables are to hold (stated independently of the code)
\* ------------------------------------------------------------------------
\* The variables of the bags of the tree below t.
SubtreeVars(t) == UNION {node[n] : n \in Nodes(Heap, t)}

\* The truth assignments to the variables of the tree below t.
Valuations(t) == [SubtreeVars(t) -> BOOLEAN]

\* The valuation gives the variables of a the values a gives them.
Agrees(val, a) ==
    \A p \in DOMAIN a.variables :
        val[a.variables[p]] = getitem(a, a.variables[p])

\* The clauses of the formula, by position, induced by a bag below t.
SubtreeClauses(t) ==
    {i \in DOMAIN formula.clauses :
        \E n \in Nodes(Heap, t) : induced_by(formula.clauses[i], node[n])}

\* The valuation makes every literal of the clause false.
FalsifiedBy(c, val) ==
    \A p \in DOMAIN c.literals : val[c.literals[p].var] # c.literals[p].sign

\* The total weight of the clauses at the positions I the valuation falsifies.
RECURSIVE FalsifiedWeight(_, _)
FalsifiedWeight(val, I) ==
    IF I = {} THEN 0
    ELSE LET i == CHOOSE i \in I : TRUE
         IN (IF FalsifiedBy(formula.clauses[i], val)
             THEN formula.clauses[i].weight ELSE 0)
            + FalsifiedWeight(val, I \ {i})

Minimum(S) == CHOOSE m \in S : \A x \in S : m <= x

\* The least weight falsified below t by a valuation agreeing with a.
OptCost(t, a) ==
    Minimum({FalsifiedWeight(val, SubtreeClauses(t)) :
                val \in {v \in Valuations(t) : Agrees(v, a)}})

\* The optimum of the whole formula.
Optimum ==
    Minimum({FalsifiedWeight(val, DOMAIN formula.clauses) :
                val \in [variables_of(formula) -> BOOLEAN]})

RowCosts(t) == {tables[t][k].cost : k \in DOMAIN tables[t]}

\* C2: after compute() on a valid tree decomposition of the primal graph,
\* the cost of every row is the least total weight of the clauses induced by
\* a bag of the subtree that a truth assignment to the subtree's variables
\* agreeing with the row falsifies; the least cost of the root's rows is the
\* optimum of the formula, which is 5 for the formula of the scenario.
C2_RowCostIsOptimum ==
    /\ \A t \in DOMAIN tables : \A k \in DOMAIN tables[t] :
          tables[t][k].cost = OptCost(t, tables[t][k].assignment)
    /\ pc = "computed" => Minimum(RowCosts(root)) = Optimum
    /\ pc = "computed" /\ formula = ExampleFormula
          => Minimum(RowCosts(root)) = 5

C4_CoreHitsEveryAssignment ==
    answer.op = "unsat_core"
        => \A val \in Valuations(answer.table) :
              \E c \in answer.value : FalsifiedBy(c, val)

\* ------------------------------------------------------------------------
\* The results of decompose()
\* ------------------------------------------------------------------------
\* C11: for a bound max_width >= 0 below the degree of every vertex,
\* decompose() eliminates nothing (no TD is ever created), returns an empty
\* list of roots, and remainder() is the whole vertex set of the graph.
C11_NothingEliminable ==
    (max_width # <<>>
      /\ \A v \in g.vertices : Cardinality(g.neighbors[v]) > max_width[1])
        => /\ node = <<>>
           /\ td_roots = <<>>
           /\ vertices = g.vertices

\* C12: without max_width decompose() eliminates every vertex, so that
\* remainder() is empty, and returns one root, which has no parent, for a
\* non-empty graph and the empty list for the empty graph; it does not raise:
\* every parentless node met by eliminate is in td_roots when
\* td_roots.remove is called on it.
C12_OneRootUnbounded ==
    /\ (pc = "eliminating" /\ max_width = <<>>)
          => \A n \in DOMAIN node : parent[n] = None => n \in Range(td_roots)
    /\ (pc = "done" /\ max_width = <<>>)
          => /\ vertices = {}
             /\ Len(td_roots) = (IF g.vertices = {} THEN 0 ELSE 1)
             /\ \A i \in DOMAIN td_roots : parent[td_roots[i]] = None

\* decompose() without max_width has returned one root for a graph of
\* several vertices without edges, whose nodes connect_roots has chained.
C12_Witness ==
    /\ pc = "done"
    /\ max_width = <<>>
    /\ ~minimize_roots
    /\ Cardinality(g.vertices) >= 2
    /\ \A v \in g.vertices : g.neighbors[v] = {}
    /\ Len(td_roots) = 1
    /\ vertices = {}
    /\ Cardinality(Nodes(Heap, td_roots[1])) = Cardinality(g.vertices)

\* C13: with a bound max_width = k >= 0 every bag of every returned tree
\* holds at most k + 1 vertices, so that width() <= k for every root.
C13_BagsWithinWidth ==
    (pc = "done" /\ max_width # <<>>)
        => \A i \in DOMAIN td_roots :
              /\ \A n \in Nodes(Heap, td_roots[i]) :
                    Cardinality(node[n]) <= max_width[1] + 1
              /\ width(Heap, td_roots[i]) <= max_width[1]

\* The roots decompose() has produced before its last loop.
ProducedRoots ==
    connect_roots(
        move_superset_children_all(
            remove_subset_children_all(Heap, td_roots), td_roots, <<>>),
        vertices)

\* C14: with minimize_roots the bag of every returned root is a subset of
\* remainder(); a produced root whose bag is not inside the remainder is
\* replaced by a new root whose bag is the intersection of that bag with the
\* remainder and whose only child is the old root; a root inside the
\* remainder is returned as it is.
C14_MinimizedRoots ==
    [][(pc = "eliminating" /\ pc' = "done" /\ minimize_roots)
        => /\ Len(td_roots') = Len(ProducedRoots.td_roots)
           /\ \A i \in DOMAIN td_roots' :
                 LET old == ProducedRoots.td_roots[i]
                     bag == ProducedRoots.h.node[old]
                     new == td_roots'[i]
                 IN /\ node'[new] \subseteq vertices'
                    /\ parent'[new] = None
                    /\ IF bag \subseteq vertices THEN new = old
                       ELSE /\ new \notin DOMAIN node
                            /\ node'[new] = bag \cap vertices
                            /\ children'[new] = <<old>>
                            /\ parent'[old] = new
                            /\ node'[old] = bag]_vars

\* decompose() with minimize_roots and a bound has put a produced root that
\* holds eliminated and remaining vertices under a new root.
C14_Witness ==
    /\ pc = "done"
    /\ minimize_roots
    /\ vertices # {}
    /\ \E i \in DOMAIN td_roots :
          /\ node[td_roots[i]] # {}
          /\ node[td_roots[i]] \subseteq vertices
          /\ Len(children[td_roots[i]]) = 1
          /\ node[td_roots[i]] =
                node[children[td_roots[i]][1]] \cap vertices
          /\ ~(node[children[td_roots[i]][1]] \subseteq vertices)

\* C15: once the time limit given to the Decomposer has elapsed, which the
\* checkpoint after an elimination step finds, no further vertex is
\* eliminated: decompose() goes on to return the roots built so far, and
\* remainder() is the set of the vertices not eliminated until then.
C15_StopsAtDeadline ==
    [][(pc = "eliminating" /\ time_limit # <<>> /\ expired)
        => /\ vertices' = vertices
           /\ pc' = "done"]_vars

\* ------------------------------------------------------------------------
\* The search for unsat tables
\* ------------------------------------------------------------------------
\* No row of the table has cost 0.
IsUnsat(t) == 0 \notin RowCosts(t)

\* Every row of the table falsifies a clause of its bag.
IsLocallyUnsat(t) == \A k \in DOMAIN tables[t] : tables[t][k].falsified # {}

\* The tables the search is to yield from t: t alone if t is unsat and its
\* children are sat; else t alone if t is locally unsat; else what the
\* children yield, in the order of the children.
RECURSIVE Frontier(_), FrontierAll(_)
FrontierAll(cs) ==
    IF cs = <<>> THEN <<>> ELSE Frontier(Head(cs)) \o FrontierAll(Tail(cs))

Frontier(t) ==
    IF IsUnsat(t) /\ \A i \in DOMAIN children[t] : ~IsUnsat(children[t][i])
    THEN <<t>>
    ELSE IF IsLocallyUnsat(t) THEN <<t>>
    ELSE FrontierAll(children[t])

\* C16: deep_unsat_descendants() of a computed table t yields t alone when t
\* is unsat and every child of t is sat; otherwise, when t is locally unsat,
\* it yields t and does not descend into the children of t; otherwise it
\* yields what the children yield, in the order of the children.
C16_DeepUnsatDescendants ==
    answer.op = "deep_unsat_descendants"
        => answer.value = Frontier(answer.table)

\* ------------------------------------------------------------------------
\* The extensions of a row
\* ------------------------------------------------------------------------
\* The truth values an assignment gives to its variables.
RowVal(a) == [v \in Range(a.variables) |-> getitem(a, v)]

\* What a row says: the truth values and the falsified clauses.
Content(r) == [val |-> RowVal(r.assignment), falsified |-> r.falsified]

\* The row together with one extension of each row of an EPT.
Merge(row, c) ==
    LET vals == <<RowVal(row.assignment)>> \o [i \in DOMAIN c |-> c[i].val]
    IN [val |-> [v \in UNION {DOMAIN vals[i] : i \in DOMAIN vals} |->
                    vals[CHOOSE i \in DOMAIN vals : v \in DOMAIN vals[i]][v]],
        falsified |-> row.falsified
                      \cup UNION {c[i].falsified : i \in DOMAIN c}]

\* The extensions of row k of the table of t: for every EPT of the row and
\* every choice of an extension of each row of the EPT, the row merged with
\* the chosen extensions.
RECURSIVE Extensions(_, _)
Extensions(t, k) ==
    LET row == tables[t][k]
        ext(e, i) == Extensions(children[t][i], row.epts[e][i])
        choices(e) ==
            {c \in [DOMAIN row.epts[e] ->
                      UNION {ext(e, i) : i \in DOMAIN row.epts[e]}] :
                \A i \in DOMAIN c : c[i] \in ext(e, i)}
    IN UNION {{Merge(row, c) : c \in choices(e)} : e \in DOMAIN row.epts}

RECURSIVE ProductOf(_)
ProductOf(s) == IF s = <<>> THEN 1 ELSE Head(s) * ProductOf(Tail(s))

\* The sum over the EPTs of the row of the product of the numbers of
\* extensions of the rows of the EPT.
RECURSIVE ExtensionCount(_, _)
ExtensionCount(t, k) ==
    LET row == tables[t][k]
    IN sum_seq([e \in DOMAIN row.epts |->
                  ProductOf([i \in DOMAIN row.epts[e] |->
                      ExtensionCount(children[t][i], row.epts[e][i])])])

\* C17: iterating a row of a computed table yields one row for every
\* advance and then stops; the rows yielded are, each once, the extensions
\* of the row: one for every choice of an EPT and of an extension of each
\* row of the EPT, their number being the sum over the EPTs of the product
\* of the children's numbers of extensions; each has no EPTs, the cost of
\* the row, truth values agreeing with the row and the chosen extensions and
\* the union of their falsified sets; no assertion fails; a new iter(row)
\* starts the sequence again.
C17_RowIteration ==
    iterator # NoIterator
        => LET row == tables[iterator.table][iterator.row]
               all == Extensions(iterator.table, iterator.row)
               count == ExtensionCount(iterator.table, iterator.row)
           IN /\ pc # "AssertionError"
              /\ \A j \in DOMAIN yielded :
                    /\ yielded[j].epts = <<>>
                    /\ yielded[j].cost = row.cost
                    /\ Content(yielded[j]) \in all
                    /\ \A v \in Range(row.assignment.variables) :
                          getitem(yielded[j].assignment, v)
                             = getitem(row.assignment, v)
                    /\ \A i \in 1..(j - 1) :
                          Content(yielded[i]) # Content(yielded[j])
              /\ Len(yielded) <= count
              /\ answer.op = "iter" => yielded = <<>>
              /\ answer.op = "next" => yielded # <<>>
              /\ answer.op = "StopIteration"
                    => /\ Len(yielded) = count
                       /\ {Content(yielded[j]) : j \in DOMAIN yielded} = all
                       /\ row.epts = << <<>> >> => Len(yielded) = 1

\* The iteration of a row whose one EPT holds two rows of two extensions
\* each has stopped after yielding the four extensions.
C17_Witness ==
    /\ iterator # NoIterator
    /\ answer.op = "StopIteration"
    /\ Len(yielded) = 4
    /\ Len(tables[iterator.table][iterator.row].epts) = 1
    /\ Len(tables[iterator.table][iterator.row].epts[1]) = 2
    /\ Cardinality({Content(yielded[j]) : j \in DOMAIN yielded}) = 4

\* ------------------------------------------------------------------------
\* Claims on Assignment
\* ------------------------------------------------------------------------
\* A list of literals read as an assignment: the variables in the order of
\* the list, the sign of each literal as the truth value of its variable.
RECURSIVE SignBits(_, _)
SignBits(l, bits) ==
    IF l = <<>> THEN bits
    ELSE SignBits(Tail(l), 2 * bits + (IF Head(l).sign THEN 1 ELSE 0))

FromLiterals(l) == Assignment([p \in DOMAIN l |-> l[p].var], SignBits(l, 0))

\* C18: to_literals emits one literal per variable in the order of the
\* assignment, the literal at list position p (counted from 0) carries bit
\* len(vs)-1-p, which is the value __getitem__ gives the variable, and the
\* literals read back as an assignment give the original assignment.
C18_ToLiteralsRoundTrip ==
    (pc = "returned" /\ answer.op = "to_literals") =>
        LET a == args.assignments[1]
            l == answer.value
            n == Len(a.variables)
        IN /\ Len(l) = n
           /\ \A p \in 1..n :
                 /\ l[p].var = a.variables[p]
                 /\ l[p].sign = bit(a, n - p)
                 /\ l[p].sign = getitem(a, a.variables[p])
           /\ FromLiterals(l) = a

C18_Witness ==
    /\ pc = "returned"
    /\ answer.op = "to_literals"
    /\ Len(answer.value) = MaxLiterals
    /\ ~answer.value[1].sign
    /\ answer.value[MaxLiterals].sign
    /\ FromLiterals(answer.value) = args.assignments[1]

\* The variables of all the assignments, in the order the assignments list
\* them
RECURSIVE AllVariables(_)
AllVariables(assignments) ==
    IF assignments = <<>> THEN <<>>
    ELSE Head(assignments).variables \o AllVariables(Tail(assignments))

\* l without the later occurrences of what it lists twice
FirstOccurrences(l) ==
    LET keep == {p \in DOMAIN l : \A q \in 1..(p - 1) : l[q] # l[p]}
        nth(k) == CHOOSE p \in keep : Cardinality({q \in keep : q <= p}) = k
    IN [k \in 1..Cardinality(keep) |-> l[nth(k)]]

PairwiseConsistent(assignments) ==
    \A i, j \in DOMAIN assignments :
        \A v \in Range(assignments[i].variables)
                 \cap Range(assignments[j].variables) :
            getitem(assignments[i], v) = getitem(assignments[j], v)

Permuted(assignments) ==
    {[p \in DOMAIN assignments |-> assignments[f[p]]] :
        f \in {f \in [DOMAIN assignments -> DOMAIN assignments] :
                  \A p, q \in DOMAIN assignments : p # q => f[p] # f[q]}}

\* C19: on pairwise-consistent inputs combine succeeds and decides exactly
\* the variables of its inputs, each once and in the order of their first
\* occurrence, with the value every input that decides it gives; the nested
\* calls and every permutation of the inputs decide the same variables with
\* the same values; combine of one assignment is that assignment.
C19_Combine ==
    (pc = "returned" /\ answer.op = "combine"
     /\ PairwiseConsistent(args.assignments)) =>
        LET as == args.assignments
            r == answer.value
        IN /\ answer.status = "ok"
           /\ r.variables = FirstOccurrences(AllVariables(as))
           /\ Cardinality(Range(r.variables)) = Len(r.variables)
           /\ \A i \in DOMAIN as : \A v \in Range(as[i].variables) :
                 getitem(r, v) = getitem(as[i], v)
           /\ \A nested \in {answer.left, answer.right} :
                 /\ nested.status = "ok"
                 /\ Len(nested.value.variables) = Len(r.variables)
                 /\ RowVal(nested.value) = RowVal(r)
           /\ \A other \in Permuted(as) :
                 /\ combine_ok(other)
                 /\ Len(combine(other).variables) = Len(r.variables)
                 /\ RowVal(combine(other)) = RowVal(r)
           /\ Len(as) = 1 => r = as[1]

C19_Witness ==
    /\ pc = "returned"
    /\ answer.op = "combine"
    /\ answer.status = "ok"
    /\ Len(args.assignments) = 3
    /\ args.assignments[1].variables = <<2>>
    /\ args.assignments[2].variables = <<1, 2>>
    /\ args.assignments[3].variables = <<2, 1>>
    /\ answer.value = Assignment(<<2, 1>>, 2)
    /\ answer.right.value = Assignment(<<2, 1>>, 2)
    /\ answer.left.value = Assignment(<<2, 1>>, 2)

\* C20 as stated: restrict to a sub-list S, then extend_disjoint with the
\* complementary variables and their bits, gives an assignment equal to the
\* original one.
C20_Original ==
    (pc = "returned" /\ answer.op = "restrict_extend") =>
        /\ answer.status = "ok"
        /\ answer.value = args.assignments[1]

\* C20: restrict to a sub-list S, then extend_disjoint with the
\* complementary variables C and their bits, gives the assignment that lists
\* S and then C and gives every variable its value in the original; it is
\* equal to the original exactly when S followed by C is the original list
\* (S is a prefix of it).  extend_disjoint fails its assertion exactly when
\* the two lists share a variable, and otherwise lists its own variables and
\* then the new ones, each with the value of its own part.
C20_RestrictExtendUpToOrder ==
    /\ (pc = "returned" /\ answer.op = "restrict_extend") =>
          LET a == args.assignments[1]
              S == args.variables
              C == Complement(a.variables, S)
              r == answer.value
          IN /\ answer.status = "ok"
             /\ r.variables = S \o C
             /\ RowVal(r) = RowVal(a)
             /\ r = a <=> S = SubSeq(a.variables, 1, Len(S))
    /\ (pc = "returned" /\ answer.op = "extend_disjoint") =>
          LET a == args.assignments[1]
              b == args.assignments[2]
              r == answer.value
          IN /\ answer.status = "AssertionError"
                   <=> Range(a.variables) \cap Range(b.variables) # {}
             /\ answer.status = "ok" =>
                   /\ r.variables = a.variables \o b.variables
                   /\ \A v \in Range(a.variables) :
                         getitem(r, v) = getitem(a, v)
                   /\ \A v \in Range(b.variables) :
                         getitem(r, v) = getitem(b, v)

C20_Witness ==
    /\ pc = "returned"
    /\ answer.op = "restrict_extend"
    /\ args.assignments[1] = Assignment(<<1, 2>>, 1)
    /\ args.variables = <<2>>
    /\ answer.value = Assignment(<<2, 1>>, 2)

\* C21: a.restrict(vs) lists, in the order of vs, exactly the variables of vs
\* that a decides, has as many bits as variables, and gives each variable the
\* value a gives it.
C21_Restrict ==
    (pc = "returned" /\ answer.op = "restrict") =>
        LET a == args.assignments[1]
            vs == args.variables
            r == answer.value
        IN /\ r.variables = SelectSeq(vs, LAMBDA v : v \in Range(a.variables))
           /\ r.bits < 2 ^ Len(r.variables)
           /\ \A v \in Range(r.variables) \cap Range(a.variables) :
                 getitem(r, v) = getitem(a, v)

\* C22: joinable is true iff every two rows of the tuple agree on every
\* variable both decide; consistent is true iff the two assignments agree on
\* every variable both decide, so it is symmetric, true of an assignment and
\* itself, and true of assignments without a common variable.
C22_Joinable ==
    /\ (pc = "returned" /\ answer.op = "joinable") =>
          (answer.value <=> PairwiseConsistent(args.assignments))
    /\ (pc = "returned" /\ answer.op = "consistent") =>
          LET a == args.assignments[1]
              b == args.assignments[2]
              common == Range(a.variables) \cap Range(b.variables)
          IN /\ answer.value
                   <=> \A v \in common : getitem(a, v) = getitem(b, v)
             /\ answer.value <=> consistent(b, a)
             /\ a = b => answer.value
             /\ common = {} => answer.value

\* ------------------------------------------------------------------------
\* Claims on the rows Table.compute() keeps
\* ------------------------------------------------------------------------
\* The tuples of rows of the computed tables of the children of t, one row
\* per child, by position in the child's table.
ChildTuples(t) ==
    LET cs == children[t]
        lens == {Len(tables[cs[i]]) : i \in DOMAIN cs}
        most == IF lens = {} THEN 0
                ELSE CHOOSE m \in lens : \A x \in lens : x <= m
    IN {ept \in [DOMAIN cs -> 1..most] :
           \A i \in DOMAIN cs : ept[i] <= Len(tables[cs[i]])}

\* The tuples whose rows agree pairwise on the variables they share.
JoinableTuples(t) ==
    {ept \in ChildTuples(t) :
        PairwiseConsistent([i \in DOMAIN ept |->
            tables[children[t][i]][ept[i]].assignment])}

\* The row candidates of the table of t: one for every joinable tuple and
\* every value of the variables t introduces.
Candidates(t) ==
    UNION {
        LET rows == ept_rows(tables, Heap, t, ept)
            inherited ==
                combine([i \in DOMAIN rows |->
                    restrict(rows[i].assignment, shared_vars(Heap, t)[i])])
            forgotten ==
                sum_seq([i \in DOMAIN rows |->
                    rows[i].cost
                    - sum_weights({c \in rows[i].falsified :
                          c \in Range(shared_clauses(formula, Heap, t)[i])})])
        IN {LET a == extend_disjoint(inherited, new_vars(Heap, t), bits)
            IN [ept |-> ept, assignment |-> a,
                cost |-> forgotten
                         + sum_weights({c \in Range(local_clauses(formula,
                                                                 Heap, t)) :
                                           falsified(c, a)})] :
            bits \in 0..(2 ^ Len(new_vars(Heap, t)) - 1)}
        : ept \in JoinableTuples(t)}

CandidatesFor(t, a) == {c \in Candidates(t) : c.assignment = a}

\* C23: every computed table has one row for every assignment some
\* candidate has; the cost of the row is the least cost of the candidates
\* with its assignment, and its EPTs are the tuples of the candidates of
\* that cost, each once.
C23_LeastCostCandidates ==
    \A t \in DOMAIN tables :
        /\ \A c \in Candidates(t) :
              Cardinality({k \in DOMAIN tables[t] :
                              tables[t][k].assignment = c.assignment}) = 1
        /\ \A k \in DOMAIN tables[t] :
              LET r == tables[t][k]
                  mine == CandidatesFor(t, r.assignment)
                  best == {c \in mine : \A d \in mine : c.cost <= d.cost}
              IN /\ mine # {}
                 /\ \A c \in best : r.cost = c.cost
                 /\ Range(r.epts) = {c.ept : c \in best}
                 /\ Len(r.epts) = Cardinality(best)

\* A row that two tuples of the same least cost produced and a more
\* expensive candidate did not change or was replaced by them
C23_Witness ==
    \E t \in DOMAIN tables : \E k \in DOMAIN tables[t] :
        /\ Len(tables[t][k].epts) >= 2
        /\ \E c \in CandidatesFor(t, tables[t][k].assignment) :
              c.cost > tables[t][k].cost

\* ------------------------------------------------------------------------
\* Claims on Decomposer.eliminate and the working graph
\* ------------------------------------------------------------------------
\* The step is an eliminate(v).
Eliminated(v) ==
    /\ pc = "eliminating" /\ pc' = "eliminating"
    /\ v \in vertices /\ v \notin vertices'

\* C24: eliminate(v) creates one node whose bag is v and its neighbours,
\* makes the neighbours pairwise adjacent, removes v from the working graph,
\* makes every parentless node that contains v a child of the new node and
\* appends the new node to td_roots; the bags and parent links of the other
\* nodes stay as they are; and while vertices are eliminated td_roots lists
\* exactly the nodes without a parent, each once.
C24_Eliminate ==
    /\ [](pc = "eliminating" =>
            /\ Range(td_roots) = {n \in DOMAIN node : parent[n] = None}
            /\ Cardinality(Range(td_roots)) = Len(td_roots))
    /\ [][\A v \in vertices : Eliminated(v) =>
            LET new == Len(node) + 1
                adopted == {n \in DOMAIN node :
                               parent[n] = None /\ v \in node[n]}
            IN /\ DOMAIN node' = DOMAIN node \cup {new}
               /\ node'[new] = {v} \cup neighbors[v]
               /\ vertices' = vertices \ {v}
               /\ \A x, y \in neighbors[v] : x # y => y \in neighbors'[x]
               /\ \A n \in adopted : parent'[n] = new
               /\ Range(children'[new]) = adopted
               /\ Len(children'[new]) = Cardinality(adopted)
               /\ parent'[new] = None
               /\ td_roots' # <<>> /\ td_roots'[Len(td_roots')] = new
               /\ \A n \in DOMAIN node :
                     /\ node'[n] = node[n]
                     /\ children'[n] = children[n]
                     /\ n \notin adopted => parent'[n] = parent[n]]_vars

\* An elimination has made two roots children of the new node.
C24_Witness ==
    /\ pc = "eliminating"
    /\ \E n \in DOMAIN node :
          /\ parent[n] = None
          /\ Len(children[n]) = 2
          /\ \A i \in DOMAIN children[n] : children[children[n][i]] = <<>>
    /\ Len(td_roots) >= 1

\* C25: the neighbour relation is symmetric and without self-loops,
\* neighbors is defined exactly for the current vertices and mentions no
\* other vertex, and num_vertices is the number of current vertices.
C25_GraphInvariant ==
    /\ DOMAIN neighbors = vertices
    /\ num_vertices = Cardinality(vertices)
    /\ \A x \in vertices :
          /\ x \notin neighbors[x]
          /\ neighbors[x] \subseteq vertices
          /\ \A y \in neighbors[x] : x \in neighbors[y]

\* All three operations have changed the graph: a vertex was removed by
\* remove_vertex, and a vertex that add_edge gave a neighbour was eliminated.
C25_Witness ==
    /\ pc = "eliminating"
    /\ \E n \in DOMAIN node : Cardinality(node[n]) >= 2
    /\ \E v \in DOMAIN bags_containing \ vertices : bags_containing[v] = <<>>
    /\ vertices # {}

\* Every node with two or more children has the bag of each of its children.
IsWeaklyNormalized(h, r) ==
    \A n \in Nodes(h, r) :
        Len(h.children[n]) >= 2
        => \A i \in DOMAIN h.children[n] : h.node[h.children[n][i]] = h.node[n]

\* C26: on a weakly normalized valid tree decomposition of the primal graph
\* no assertion fails while the tables are computed, and at the end every
\* node has its table.
C26_NoAssertionFails ==
    (ValidTD(Heap, root, g) /\ IsWeaklyNormalized(Heap, root)) =>
        /\ pc \in {"table", "computed"}
        /\ pc = "table" => DOMAIN tables # Nodes(Heap, root)
        /\ pc = "computed" => DOMAIN tables = Nodes(Heap, root)

\* The tables of a weakly normalized decomposition with a join node are
\* computed.
C26_Witness ==
    /\ pc = "computed"
    /\ ValidTD(Heap, root, g)
    /\ IsWeaklyNormalized(Heap, root)
    /\ \E n \in Nodes(Heap, root) :
          /\ Len(children[n]) >= 2
          /\ node[n] # {}
          /\ \E k \in DOMAIN tables[n] : Len(tables[n][k].epts) >= 1

\* C27: after compute() on a valid tree decomposition every table has one
\* row for each truth assignment of the bag of its node, and all its rows
\* list the variables of the bag, each once, in the same order; so no two
\* rows of a table have the same bits.
C27_OneRowPerAssignment ==
    ValidTD(Heap, root, g) =>
        \A t \in DOMAIN tables :
            LET rows == tables[t]
                n == Cardinality(node[t])
            IN /\ Len(rows) = 2 ^ n
               /\ \A k \in DOMAIN rows :
                     /\ Len(rows[k].assignment.variables) = n
                     /\ Range(rows[k].assignment.variables) = node[t]
                     /\ rows[k].assignment.variables
                           = rows[1].assignment.variables
                     /\ rows[k].assignment.bits \in 0..(2 ^ n - 1)
               /\ \A k, l \in DOMAIN rows :
                     k # l => rows[k].assignment.bits # rows[l].assignment.bits
               /\ {RowVal(rows[k].assignment) : k \in DOMAIN rows}
                     = [node[t] -> BOOLEAN]

\* The table of a node with two variables, one of them shared with a child,
\* is computed.
C27_Witness ==
    /\ pc = "computed"
    /\ \E t \in DOMAIN tables :
          /\ Cardinality(node[t]) = 2
          /\ Len(tables[t]) = 4
          /\ \E i \in DOMAIN children[t] :
                Cardinality(node[t] \cap node[children[t][i]]) = 1

\* C28: in every computed table every child row of every EPT of a row costs
\* at most what the row costs, so no assertion fails while a row is
\* iterated; and below a table with a row of cost 0 every table has a row of
\* cost 0.
C28_EptCostsBounded ==
    /\ \A t \in DOMAIN tables : \A k \in DOMAIN tables[t] :
          \A e \in DOMAIN tables[t][k].epts :
             \A i \in DOMAIN tables[t][k].epts[e] :
                tables[children[t][i]][tables[t][k].epts[e][i]].cost
                   <= tables[t][k].cost
    /\ \A t \in DOMAIN tables :
          0 \in RowCosts(t)
          => \A d \in Nodes(Heap, t) : d \in DOMAIN tables /\ 0 \in RowCosts(d)
    /\ pc = "AssertionError" => answer = NoAnswer

\* A row of positive cost with an EPT to a cheaper child row has yielded an
\* extension, in a tree whose root table has a row of cost 0.
C28_Witness ==
    /\ pc = "computed"
    /\ answer.op = "next"
    /\ yielded # <<>>
    /\ 0 \in RowCosts(root)
    /\ LET r == tables[iterator.table][iterator.row]
       IN /\ r.cost > 0
          /\ \E e \in DOMAIN r.epts : \E i \in DOMAIN r.epts[e] :
                tables[children[iterator.table][i]][r.epts[e][i]].cost < r.cost

\* The total weight of a set of clauses.
RECURSIVE TotalWeight(_)
TotalWeight(S) ==
    IF S = {} THEN 0
    ELSE LET c == CHOOSE c \in S : TRUE
         IN c.weight + TotalWeight(S \ {c})

\* The clauses induced by a bag of the tree below t that the assignment
\* falsifies.
FalsifiedBelow(t, a) ==
    {formula.clauses[i] : i \in {i \in SubtreeClauses(t) :
        FalsifiedBy(formula.clauses[i], RowVal(a))}}

\* C29: every row yielded by iterating a row of the table of t decides the
\* variables of the tree below t, each once; its falsified set is the set of
\* the clauses induced below t that its assignment falsifies; and the
\* weights of that set add up to its cost, which is the cost of the row
\* iterated.
C29_ExtensionsAreWitnesses ==
    (pc = "computed" /\ ValidTD(Heap, root, g)) =>
        \A j \in DOMAIN yielded :
            LET y == yielded[j]
                t == iterator.table
            IN /\ Range(y.assignment.variables) = SubtreeVars(t)
               /\ Len(y.assignment.variables) = Cardinality(SubtreeVars(t))
               /\ y.falsified = FalsifiedBelow(t, y.assignment)
               /\ TotalWeight(y.falsified) = y.cost
               /\ y.cost = tables[t][iterator.row].cost

\* An extension that decides a variable its row does not and falsifies two
\* clauses has been yielded.
C29_Witness ==
    /\ pc = "computed"
    /\ ValidTD(Heap, root, g)
    /\ \E j \in DOMAIN yielded :
          /\ Cardinality(yielded[j].falsified) >= 2
          /\ yielded[j].cost >= 2
          /\ Len(yielded[j].assignment.variables)
                > Cardinality(node[iterator.table])
          /\ yielded[j].falsified
                # tables[iterator.table][iterator.row].falsified

\* C30: unsat_cores() on a computed table fails no assertion; if the table
\* has no row of cost 0 it yields at least one core, every core is not
\* empty, and every table whose core is taken has no row of cost 0; if the
\* table has a row of cost 0 it yields nothing.
C30_UnsatCores ==
    answer.op = "unsat_cores" =>
        /\ answer.status = "ok"
        /\ \A i \in DOMAIN answer.value : answer.value[i] # {}
        /\ \A i \in DOMAIN answer.tables : 0 \notin RowCosts(answer.tables[i])
        /\ 0 \notin RowCosts(answer.table) => Len(answer.value) >= 1
        /\ 0 \in RowCosts(answer.table) => answer.value = <<>>

\* unsat_cores() has yielded the core of a table one of whose rows falsifies
\* none of the table's own clauses.
C30_Witness ==
    /\ answer.op = "unsat_cores"
    /\ answer.status = "ok"
    /\ answer.table = root
    /\ Len(answer.value) >= 1
    /\ \E i \in DOMAIN answer.tables :
          \E k \in DOMAIN tables[answer.tables[i]] :
             tables[answer.tables[i]][k].falsified = {}

====
